---- MODULE Spec2Model ----
(***************************************************************************)
(* State-machine model of the SASSI microservices:                         *)
(*   - EWS Service: NEWS2 scorer, score consensus, event store and the     *)
(*     CQRS read-model projector (commandHandler, ewsCalculator);          *)
(*   - Data Collector Service: sensor ingestion and sensor consensus.      *)
(* Timestamps are milliseconds since an arbitrary epoch.  Numeric vital    *)
(* signs are held in tenths of their unit (37.2 degrees is 372, a          *)
(* respiratory rate of 8 is 80), so that values lying between two integer  *)
(* bands are representable.  Sensor values are integers in their unit.     *)
(***************************************************************************)
EXTENDS Integers, Sequences, FiniteSets, TLC

VARIABLES
  EWSScoreEvent,   \* EWS Service: EWSScoreEvent collection, in insertion order
  EWSConsensus,   \* EWS Service: EWSConsensus collection, in insertion order
  EWSReadModel,    \* EWS Service: EWSReadModel collection, patientId -> row
  EWSReadModelRows, \* EWS Service: number of EWSReadModel documents per patientId
  projecting,      \* EWS Service: updateReadModel calls between their findOne and their save
  channel,         \* EWS Service: the event bus channel, its queue and what was settled on it
  appended,        \* history: per patient, every scoreHistory entry ever saved
  applications,    \* history: per patient, consensusIds applied by the projector
  lastOp,          \* the last operation served and what it did
  SensorData,      \* Data Collector: SensorData collection, in insertion order
  ConsensusData,   \* Data Collector: ConsensusData collection
  router,          \* Data Collector: which routes file is mounted
  pin,             \* pure-function specification: the input drawn
  pout,            \* pure-function specification: the result computed
  Alert,           \* Alert Engine: Alert collection, alertId -> document
  inflight,        \* Alert Engine: requests between their findOne and their save
  AlertSubscription, \* Alert Engine: AlertSubscription collection, in insertion order
  Notification     \* Alert Engine: Notification collection, notificationId = position

vars == <<EWSScoreEvent, EWSConsensus, EWSReadModel, EWSReadModelRows, projecting,
          appended, applications, lastOp, SensorData, ConsensusData, router, pin, pout, Alert, inflight,
          AlertSubscription, Notification, channel>>

ewsVars == <<EWSScoreEvent, EWSConsensus, EWSReadModel, EWSReadModelRows, projecting,
            appended, applications>>
collectorVars == <<SensorData, ConsensusData, router>>
pureVars == <<pin, pout>>
busVars == <<channel>>
alertVars == <<Alert, inflight, AlertSubscription, Notification>>

\* JavaScript null / undefined / "no document"
Null == [null |-> TRUE]

----------------------------------------------------------------------------
(* Bounds and input sets *)

\* number of commands served in the fault-free / fault-injecting specification
MaxEvents == 3
MaxFaultyEvents == 2
\* number of readings ingested by the Data Collector
MaxReadings == 3
MaxVitalReadings == 3
\* number of consensus applications the projector is driven through with
\* arbitrary input, and the length of the routine run that fills the history
MaxApplied == 3
MaxRoutine == 102
\* number of nodes taking part in a consensus computed on its own
MaxNodes == 3

\* requests on alerts that may be between their findOne and their save
MaxInFlight == 2

\* Notification records the collection may hold
MaxNotifications == 3

\* event bus: messages published and deliveries made
MaxMessages == 2
MaxDeliveries == 4

Patients == {"P1", "P2"}
Nodes == {"node-1", "node-2"}
NodeName(i) == "node-" \o ToString(i)

\* tenths of a unit
T(x) == x * 10

----------------------------------------------------------------------------
(* ewsCalculator.calculateEWS *)

RespiratoryRateScore(v) ==
  IF v <= T(8) THEN 3
  ELSE IF v >= T(9) /\ v <= T(11) THEN 1
  ELSE IF v >= T(12) /\ v <= T(20) THEN 0
  ELSE IF v >= T(21) /\ v <= T(24) THEN 2
  ELSE IF v >= T(25) THEN 3
  ELSE 0

OxygenSaturationScore(v) ==
  IF v <= T(91) THEN 3
  ELSE IF v >= T(92) /\ v <= T(93) THEN 2
  ELSE IF v >= T(94) /\ v <= T(95) THEN 1
  ELSE IF v >= T(96) THEN 0
  ELSE 0

TemperatureScore(v) ==
  IF v <= 350 THEN 3
  ELSE IF v >= 351 /\ v <= 360 THEN 1
  ELSE IF v >= 361 /\ v <= 380 THEN 0
  ELSE IF v >= 381 /\ v <= 390 THEN 1
  ELSE IF v >= 391 THEN 2
  ELSE 0

SystolicBPScore(v) ==
  IF v <= T(90) THEN 3
  ELSE IF v >= T(91) /\ v <= T(100) THEN 2
  ELSE IF v >= T(101) /\ v <= T(110) THEN 1
  ELSE IF v >= T(111) /\ v <= T(219) THEN 0
  ELSE IF v >= T(220) THEN 3
  ELSE 0

\* heart rate bands that leave 91-100 without a score
HeartRateScore_Gap(v) ==
  IF v <= T(40) THEN 3
  ELSE IF v >= T(41) /\ v <= T(50) THEN 1
  ELSE IF v >= T(51) /\ v <= T(90) THEN 0
  ELSE IF v >= T(101) /\ v <= T(110) THEN 1
  ELSE IF v >= T(111) /\ v <= T(130) THEN 2
  ELSE IF v >= T(131) THEN 3
  ELSE 0

HeartRateScore(v) ==
  IF v <= T(40) THEN 3
  ELSE IF v >= T(41) /\ v <= T(50) THEN 1
  ELSE IF v >= T(51) /\ v <= T(90) THEN 0
  ELSE IF v >= T(91) /\ v <= T(110) THEN 1
  ELSE IF v >= T(111) /\ v <= T(130) THEN 2
  ELSE IF v >= T(131) THEN 3
  ELSE 0

ConsciousnessScore(c) ==
  IF c = "Alert" THEN 0
  ELSE IF c \in {"Voice", "Pain", "Unresponsive"} THEN 3
  ELSE 0

determineClinicalRisk_HighAboveEight(score) ==
  IF score >= 9 THEN "High"
  ELSE IF score >= 5 THEN "Medium"
  ELSE IF score >= 1 THEN "Low-Medium"
  ELSE "Low"

determineClinicalRisk(score) ==
  IF score >= 7 THEN "High"
  ELSE IF score >= 5 THEN "Medium"
  ELSE IF score >= 1 THEN "Low-Medium"
  ELSE "Low"

\* a scorer whose Medium risk starts at a total of 4
calculateEWS_MediumAtFour(vitalSigns) ==
  LET scoreComponents ==
        [respiratoryRate  |-> IF "respiratoryRate" \in DOMAIN vitalSigns
                              THEN RespiratoryRateScore(vitalSigns.respiratoryRate) ELSE 0,
         oxygenSaturation |-> IF "oxygenSaturation" \in DOMAIN vitalSigns
                              THEN OxygenSaturationScore(vitalSigns.oxygenSaturation) ELSE 0,
         temperature      |-> IF "temperature" \in DOMAIN vitalSigns
                              THEN TemperatureScore(vitalSigns.temperature) ELSE 0,
         systolicBP       |-> IF "systolicBP" \in DOMAIN vitalSigns
                              THEN SystolicBPScore(vitalSigns.systolicBP) ELSE 0,
         heartRate        |-> IF "heartRate" \in DOMAIN vitalSigns
                              THEN HeartRateScore(vitalSigns.heartRate) ELSE 0,
         consciousness    |-> IF "consciousness" \in DOMAIN vitalSigns
                              THEN ConsciousnessScore(vitalSigns.consciousness) ELSE 0]
      totalScore ==
        scoreComponents.respiratoryRate + scoreComponents.oxygenSaturation
        + scoreComponents.temperature + scoreComponents.systolicBP
        + scoreComponents.heartRate + scoreComponents.consciousness
  IN [scoreComponents |-> scoreComponents,
      totalScore      |-> totalScore,
      clinicalRisk    |-> IF totalScore >= 7 THEN "High"
                          ELSE IF totalScore >= 4 THEN "Medium"
                          ELSE IF totalScore >= 1 THEN "Low-Medium"
                          ELSE "Low"]

\* a vital sign that the request leaves out is undefined: every comparison with
\* it is false and its component keeps the initial 0
calculateEWS(vitalSigns) ==
  LET scoreComponents ==
        [respiratoryRate  |-> IF "respiratoryRate" \in DOMAIN vitalSigns
                              THEN RespiratoryRateScore(vitalSigns.respiratoryRate) ELSE 0,
         oxygenSaturation |-> IF "oxygenSaturation" \in DOMAIN vitalSigns
                              THEN OxygenSaturationScore(vitalSigns.oxygenSaturation) ELSE 0,
         temperature      |-> IF "temperature" \in DOMAIN vitalSigns
                              THEN TemperatureScore(vitalSigns.temperature) ELSE 0,
         systolicBP       |-> IF "systolicBP" \in DOMAIN vitalSigns
                              THEN SystolicBPScore(vitalSigns.systolicBP) ELSE 0,
         heartRate        |-> IF "heartRate" \in DOMAIN vitalSigns
                              THEN HeartRateScore(vitalSigns.heartRate) ELSE 0,
         consciousness    |-> IF "consciousness" \in DOMAIN vitalSigns
                              THEN ConsciousnessScore(vitalSigns.consciousness) ELSE 0]
      totalScore ==
        scoreComponents.respiratoryRate + scoreComponents.oxygenSaturation
        + scoreComponents.temperature + scoreComponents.systolicBP
        + scoreComponents.heartRate + scoreComponents.consciousness
  IN [scoreComponents |-> scoreComponents,
      totalScore      |-> totalScore,
      clinicalRisk    |-> IF totalScore >= 7 THEN "High"
                          ELSE IF totalScore >= 5 THEN "Medium"
                          ELSE IF totalScore >= 1 THEN "Low-Medium"
                          ELSE "Low"]

----------------------------------------------------------------------------
(* Helpers for JavaScript array and object semantics *)

Max(a, b) == IF a >= b THEN a ELSE b
Min(a, b) == IF a <= b THEN a ELSE b

SetMax(S) == CHOOSE x \in S : \A y \in S : y <= x
SetMin(S) == CHOOSE x \in S : \A y \in S : x <= y

Range(seq) == {seq[i] : i \in 1..Len(seq)}

\* Object.keys of an object whose property names are canonical non-negative
\* integers: ascending numeric order.
RECURSIVE AscendingKeys(_)
AscendingKeys(S) ==
  IF S = {} THEN <<>> ELSE <<SetMin(S)>> \o AscendingKeys(S \ {SetMin(S)})

\* xs.reduce((latest, current) =>
\*     new Date(current.timestamp) > new Date(latest.timestamp) ? current : latest, xs[0])
\* a reduce that never replaces its initial value
ReduceLatest_KeepInitial(xs, latest) == latest

RECURSIVE ReduceLatest(_, _)
ReduceLatest(xs, latest) ==
  IF xs = <<>> THEN latest
  ELSE ReduceLatest(Tail(xs), IF Head(xs).timestamp > latest.timestamp
                              THEN Head(xs) ELSE latest)

RECURSIVE SumSeq(_)
SumSeq(xs) == IF xs = <<>> THEN 0 ELSE Head(xs) + SumSeq(Tail(xs))

\* the quotient a / n truncated to an integer
MathRound_Truncate(a, n) == a \div n

\* Math.round of the quotient a / n for a >= 0, n > 0 (halves round up)
MathRound(a, n) == (2 * a + n) \div (2 * n)

Abs(x) == IF x < 0 THEN -x ELSE x

\* whether the injected failure was actually hit by the steps completed
FailureHit(fail, trace) ==
  \E i \in 1..Len(trace) : trace[i] \in {fail \o ":error", fail \o ":false"}

\* Model.find(query).sort({ timestamp: 1 }): the matching documents in ascending
\* timestamp order; the store returns documents of equal timestamp in any order.
SortedByTimestamp(docs) ==
  {s \in [1..Cardinality(docs) -> docs] :
     /\ \A i, j \in 1..Cardinality(docs) : i # j => s[i] # s[j]
     /\ \A i, j \in 1..Cardinality(docs) : i < j => s[i].timestamp <= s[j].timestamp}

\* obj[key] = value that keeps the value a key already has
RECURSIVE PutByNode_KeepFirst(_, _)
PutByNode_KeepFirst(values, entry) ==
  IF values = <<>> THEN <<entry>>
  ELSE IF Head(values).nodeId = entry.nodeId THEN values
  ELSE <<Head(values)>> \o PutByNode_KeepFirst(Tail(values), entry)

\* obj[key] = value, for an object held as the sequence of its values in
\* property (first-insertion) order; keyOf gives the key of a value
RECURSIVE PutByNode(_, _)
PutByNode(values, entry) ==
  IF values = <<>> THEN <<entry>>
  ELSE IF Head(values).nodeId = entry.nodeId THEN <<entry>> \o Tail(values)
  ELSE <<Head(values)>> \o PutByNode(Tail(values), entry)

----------------------------------------------------------------------------
(* ewsCalculator.determineConsensus: consensus over per-node EWS scores *)

timestampThreshold == 5000
scoreThreshold == 1

ScoreGroup(nodeScores, score) ==
  SelectSeq(nodeScores, LAMBDA n : n.totalScore = score)

\* Object.keys(scoreGroups).forEach(...): find the score with most occurrences
RECURSIVE ScoreMajorityScan(_, _, _)
ScoreMajorityScan(nodeScores, keys, acc) ==
  IF keys = <<>> THEN acc
  ELSE LET group == ScoreGroup(nodeScores, Head(keys))
       IN ScoreMajorityScan(nodeScores, Tail(keys),
            IF Len(group) > acc.majorityCount
            THEN [majorityScore     |-> Head(keys),
                  majorityCount     |-> Len(group),
                  majorityTimestamp |-> ReduceLatest(group, group[1]).timestamp]
            ELSE acc)

ewsCalculator_determineConsensus_InvalidAverage(nodeScores) ==
  IF Len(nodeScores) = 0 THEN
    [consensusScore |-> -1, consensusTimestamp |-> -1, validConsensus |-> FALSE,
     consensusMethod |-> "null", clinicalRisk |-> "null"]
  ELSE IF Len(nodeScores) = 1 THEN
    [consensusScore     |-> nodeScores[1].totalScore,
     consensusTimestamp |-> nodeScores[1].timestamp,
     validConsensus     |-> TRUE,
     consensusMethod    |-> "single",
     clinicalRisk       |-> nodeScores[1].clinicalRisk]
  ELSE
    LET timestamps   == {nodeScores[i].timestamp : i \in 1..Len(nodeScores)}
        minTimestamp == SetMin(timestamps)
        maxTimestamp == SetMax(timestamps)
        timeRange    == maxTimestamp - minTimestamp
    IN IF timeRange > timestampThreshold THEN
         LET latestScore == ReduceLatest(nodeScores, nodeScores[1])
         IN [consensusScore     |-> latestScore.totalScore,
             consensusTimestamp |-> latestScore.timestamp,
             validConsensus     |-> TRUE,
             consensusMethod    |-> "latest",
             clinicalRisk       |-> latestScore.clinicalRisk]
       ELSE
         LET keys == AscendingKeys({nodeScores[i].totalScore : i \in 1..Len(nodeScores)})
             m == ScoreMajorityScan(nodeScores, keys,
                    [majorityScore |-> -1, majorityCount |-> 0, majorityTimestamp |-> -1])
             hasMajority == 2 * m.majorityCount > Len(nodeScores)
             sum == SumSeq([i \in 1..Len(nodeScores) |-> nodeScores[i].totalScore])
             avgScore == MathRound(sum, Len(nodeScores))
             allWithinThreshold ==
               \A i \in 1..Len(nodeScores) :
                 Abs(nodeScores[i].totalScore - avgScore) <= scoreThreshold
         IN IF ~hasMajority THEN
              IF allWithinThreshold THEN
                [consensusScore     |-> avgScore,
                 consensusTimestamp |-> maxTimestamp,
                 validConsensus     |-> TRUE,
                 consensusMethod    |-> "average",
                 clinicalRisk       |-> determineClinicalRisk(avgScore)]
              ELSE
                [consensusScore     |-> avgScore,
                 consensusTimestamp |-> maxTimestamp,
                 validConsensus     |-> FALSE,
                 consensusMethod    |-> "average",
                 clinicalRisk       |-> determineClinicalRisk(avgScore)]
            ELSE
              [consensusScore     |-> m.majorityScore,
               consensusTimestamp |-> m.majorityTimestamp,
               validConsensus     |-> TRUE,
               consensusMethod    |-> "majority",
               clinicalRisk       |-> determineClinicalRisk(m.majorityScore)]

ewsCalculator_determineConsensus(nodeScores) ==
  IF Len(nodeScores) = 0 THEN
    [consensusScore |-> -1, consensusTimestamp |-> -1, validConsensus |-> FALSE,
     consensusMethod |-> "null", clinicalRisk |-> "null"]
  ELSE IF Len(nodeScores) = 1 THEN
    [consensusScore     |-> nodeScores[1].totalScore,
     consensusTimestamp |-> nodeScores[1].timestamp,
     validConsensus     |-> TRUE,
     consensusMethod    |-> "single",
     clinicalRisk       |-> nodeScores[1].clinicalRisk]
  ELSE
    LET timestamps   == {nodeScores[i].timestamp : i \in 1..Len(nodeScores)}
        minTimestamp == SetMin(timestamps)
        maxTimestamp == SetMax(timestamps)
        timeRange    == maxTimestamp - minTimestamp
    IN IF timeRange > timestampThreshold THEN
         LET latestScore == ReduceLatest(nodeScores, nodeScores[1])
         IN [consensusScore     |-> latestScore.totalScore,
             consensusTimestamp |-> latestScore.timestamp,
             validConsensus     |-> TRUE,
             consensusMethod    |-> "latest",
             clinicalRisk       |-> latestScore.clinicalRisk]
       ELSE
         LET keys == AscendingKeys({nodeScores[i].totalScore : i \in 1..Len(nodeScores)})
             m == ScoreMajorityScan(nodeScores, keys,
                    [majorityScore |-> -1, majorityCount |-> 0, majorityTimestamp |-> -1])
             hasMajority == 2 * m.majorityCount > Len(nodeScores)
             sum == SumSeq([i \in 1..Len(nodeScores) |-> nodeScores[i].totalScore])
             avgScore == MathRound(sum, Len(nodeScores))
             allWithinThreshold ==
               \A i \in 1..Len(nodeScores) :
                 Abs(nodeScores[i].totalScore - avgScore) <= scoreThreshold
         IN IF ~hasMajority THEN
              IF allWithinThreshold THEN
                [consensusScore     |-> avgScore,
                 consensusTimestamp |-> maxTimestamp,
                 validConsensus     |-> TRUE,
                 consensusMethod    |-> "average",
                 clinicalRisk       |-> determineClinicalRisk(avgScore)]
              ELSE
                [consensusScore     |-> avgScore,
                 consensusTimestamp |-> maxTimestamp,
                 validConsensus     |-> FALSE,
                 consensusMethod    |-> "none",
                 clinicalRisk       |-> determineClinicalRisk(avgScore)]
            ELSE
              [consensusScore     |-> m.majorityScore,
               consensusTimestamp |-> m.majorityTimestamp,
               validConsensus     |-> TRUE,
               consensusMethod    |-> "majority",
               clinicalRisk       |-> determineClinicalRisk(m.majorityScore)]

----------------------------------------------------------------------------
(* EWS Service alertService: classification of a consensus into an alert *)

determineAlertType(consensusData) ==
  IF ~consensusData.validConsensus THEN
    [requiresAlert |-> TRUE, alertType |-> "EWS_DATA_INCONSISTENCY", alertSeverity |-> "MEDIUM"]
  ELSE IF consensusData.consensusScore >= 7 THEN
    [requiresAlert |-> TRUE, alertType |-> "EWS_CRITICAL", alertSeverity |-> "HIGH"]
  ELSE IF consensusData.consensusScore >= 5 /\ consensusData.consensusScore <= 6 THEN
    [requiresAlert |-> TRUE, alertType |-> "EWS_URGENT", alertSeverity |-> "MEDIUM"]
  ELSE IF consensusData.consensusScore >= 3 /\ consensusData.consensusScore <= 4 THEN
    [requiresAlert |-> TRUE, alertType |-> "EWS_ELEVATED", alertSeverity |-> "LOW"]
  ELSE
    [requiresAlert |-> FALSE, alertType |-> "null", alertSeverity |-> "null"]

\* the alertData body posted to the Alert Engine, or Null when none is needed
processEWSAlert(consensusData) ==
  LET alertInfo == determineAlertType(consensusData)
  IN IF ~alertInfo.requiresAlert THEN Null
     ELSE [patientId     |-> consensusData.patientId,
           alertType     |-> alertInfo.alertType,
           alertSeverity |-> alertInfo.alertSeverity,
           timestamp     |-> consensusData.consensusTimestamp,
           ewsScore      |-> consensusData.consensusScore,
           clinicalRisk  |-> consensusData.clinicalRisk]

----------------------------------------------------------------------------
(* EWS Service commandHandler: read-model projector *)

HistoryLimit == 100

\* xs.slice(0, n)
SliceLast_KeepOldest(xs, n) ==
  IF Len(xs) <= n THEN xs ELSE SubSeq(xs, 1, n)

\* xs.slice(-n)
SliceLast(xs, n) ==
  IF Len(xs) <= n THEN xs ELSE SubSeq(xs, Len(xs) - n + 1, Len(xs))

\* nodeScores.find(node => node.totalScore === consensusScore) || nodeScores[0]
NodeWithConsensusScore(consensusData) ==
  LET hits == SelectSeq(consensusData.nodeScores,
                        LAMBDA node : node.totalScore = consensusData.consensusScore)
  IN IF hits # <<>> THEN hits[1] ELSE consensusData.nodeScores[1]

HistoryEntry(consensusData) ==
  [timestamp    |-> consensusData.consensusTimestamp,
   score        |-> consensusData.consensusScore,
   clinicalRisk |-> consensusData.clinicalRisk]

\* an update that takes score, risk and time only from a valid consensus
updateReadModel_ValidOnly(readModel, consensusData) ==
  IF readModel = Null THEN
    [patientId       |-> consensusData.patientId,
     currentScore    |-> consensusData.consensusScore,
     clinicalRisk    |-> consensusData.clinicalRisk,
     vitalSigns      |-> NodeWithConsensusScore(consensusData).vitalSigns,
     scoreComponents |-> NodeWithConsensusScore(consensusData).scoreComponents,
     scoreHistory    |-> <<HistoryEntry(consensusData)>>,
     lastUpdated     |-> consensusData.consensusTimestamp]
  ELSE
    LET pushed == Append(readModel.scoreHistory, HistoryEntry(consensusData))
    IN [readModel EXCEPT
          !.currentScore    = IF consensusData.validConsensus
                              THEN consensusData.consensusScore ELSE @,
          !.clinicalRisk    = IF consensusData.validConsensus
                              THEN consensusData.clinicalRisk ELSE @,
          !.lastUpdated     = IF consensusData.validConsensus
                              THEN consensusData.consensusTimestamp ELSE @,
          !.vitalSigns      = IF consensusData.validConsensus
                              THEN NodeWithConsensusScore(consensusData).vitalSigns
                              ELSE @,
          !.scoreComponents = IF consensusData.validConsensus
                              THEN NodeWithConsensusScore(consensusData).scoreComponents
                              ELSE @,
          !.scoreHistory    = IF Len(pushed) > HistoryLimit
                              THEN SliceLast(pushed, HistoryLimit)
                              ELSE pushed]

\* an update that copies vitalSigns and scoreComponents from every consensus
updateReadModel_AlwaysCopyVitals(readModel, consensusData) ==
  LET pushed == IF readModel = Null THEN <<HistoryEntry(consensusData)>>
                ELSE Append(readModel.scoreHistory, HistoryEntry(consensusData))
  IN [patientId       |-> consensusData.patientId,
      currentScore    |-> consensusData.consensusScore,
      clinicalRisk    |-> consensusData.clinicalRisk,
      vitalSigns      |-> NodeWithConsensusScore(consensusData).vitalSigns,
      scoreComponents |-> NodeWithConsensusScore(consensusData).scoreComponents,
      scoreHistory    |-> IF Len(pushed) > HistoryLimit
                          THEN SliceLast(pushed, HistoryLimit) ELSE pushed,
      lastUpdated     |-> consensusData.consensusTimestamp]

\* the document that updateReadModel saves, given the document findOne returned
updateReadModel(readModel, consensusData) ==
  IF readModel = Null THEN
    [patientId       |-> consensusData.patientId,
     currentScore    |-> consensusData.consensusScore,
     clinicalRisk    |-> consensusData.clinicalRisk,
     vitalSigns      |-> NodeWithConsensusScore(consensusData).vitalSigns,
     scoreComponents |-> NodeWithConsensusScore(consensusData).scoreComponents,
     scoreHistory    |-> <<HistoryEntry(consensusData)>>,
     lastUpdated     |-> consensusData.consensusTimestamp]
  ELSE
    LET pushed == Append(readModel.scoreHistory, HistoryEntry(consensusData))
    IN [readModel EXCEPT
          !.currentScore    = consensusData.consensusScore,
          !.clinicalRisk    = consensusData.clinicalRisk,
          !.lastUpdated     = consensusData.consensusTimestamp,
          !.vitalSigns      = IF consensusData.validConsensus
                              THEN NodeWithConsensusScore(consensusData).vitalSigns
                              ELSE @,
          !.scoreComponents = IF consensusData.validConsensus
                              THEN NodeWithConsensusScore(consensusData).scoreComponents
                              ELSE @,
          !.scoreHistory    = IF Len(pushed) > HistoryLimit
                              THEN SliceLast(pushed, HistoryLimit)
                              ELSE pushed]

----------------------------------------------------------------------------
(* EWS Service commandHandler: attemptConsensus and handleCalculateEWSCommand *)

\* the query of attemptConsensus over the event store
RecentEvents(store, event) ==
  {evt \in Range(store) :
     /\ evt.patientId = event.patientId
     /\ evt.eventType = "EWS_CALCULATED"
     /\ evt.timestamp >= event.timestamp - 30000
     /\ evt.timestamp <= event.timestamp + 5000}

\* recentEvents.forEach(evt => { nodeScores[evt.nodeId] = {...} }); Object.values(nodeScores)
RECURSIVE LatestScorePerNode(_, _)
LatestScorePerNode(recentEvents, nodeScores) ==
  IF recentEvents = <<>> THEN nodeScores
  ELSE LET evt == Head(recentEvents)
       IN LatestScorePerNode(Tail(recentEvents),
            PutByNode(nodeScores,
              [nodeId          |-> evt.nodeId,
               totalScore      |-> evt.totalScore,
               timestamp       |-> evt.timestamp,
               vitalSigns      |-> evt.vitalSigns,
               scoreComponents |-> evt.scoreComponents,
               clinicalRisk    |-> evt.clinicalRisk]))

\* the nodeScores sub-documents as the EWSConsensus schema keeps them
\* (the schema has no clinicalRisk path under nodeScores)
CastNodeScores(scores) ==
  [i \in 1..Len(scores) |->
     [nodeId          |-> scores[i].nodeId,
      totalScore      |-> scores[i].totalScore,
      timestamp       |-> scores[i].timestamp,
      vitalSigns      |-> scores[i].vitalSigns,
      scoreComponents |-> scores[i].scoreComponents]]

\* new EWSConsensus({...}) of attemptConsensus, for the scores of the window
NewEWSConsensus(consensusId, patientId, scores) ==
  LET consensus == ewsCalculator_determineConsensus(scores)
  IN [consensusId        |-> consensusId,
      patientId          |-> patientId,
      nodeScores         |-> CastNodeScores(scores),
      consensusScore     |-> consensus.consensusScore,
      clinicalRisk       |-> consensus.clinicalRisk,
      consensusTimestamp |-> consensus.consensusTimestamp,
      validConsensus     |-> consensus.validConsensus,
      consensusMethod    |-> consensus.consensusMethod]

\* Places where a storage or network call of the handler can be made to fail
FailurePoints ==
  {"none", "event.save", "publish.calculated", "event.find", "consensus.save",
   "readModel.save", "sendAlert", "publish.consensus"}

commandHandler_attemptConsensus_PublishUnprojected(event, recentEvents, fail) ==
  LET unchanged == [EWSConsensus |-> EWSConsensus, EWSReadModel |-> EWSReadModel,
                    consensus |-> Null, projected |-> FALSE, alert |-> Null,
                    trace |-> <<>>]
  IN IF fail = "event.find" THEN [unchanged EXCEPT !.trace = <<"event.find:error">>]
     ELSE
     LET scores == LatestScorePerNode(recentEvents, <<>>)
     IN IF ~(Len(scores) >= 2) THEN unchanged
        ELSE
        LET consensus == ewsCalculator_determineConsensus(scores)
            consensusData == NewEWSConsensus(Len(EWSConsensus) + 1, event.patientId, scores)
            saved == Append(EWSConsensus, consensusData)
            readModel == updateReadModel(EWSReadModel[event.patientId], consensusData)
            projected == [EWSReadModel EXCEPT ![event.patientId] = readModel]
            alertNeeded == consensus.consensusScore >= 5 \/ ~consensus.validConsensus
            alertData == IF alertNeeded THEN processEWSAlert(consensusData) ELSE Null
        IN IF fail = "consensus.save" THEN
             [unchanged EXCEPT !.trace = <<"consensus.save:error">>]
           ELSE IF fail = "readModel.save" THEN
             [unchanged EXCEPT !.EWSConsensus = saved, !.consensus = consensusData,
                               !.trace = <<"consensus.save", "readModel.save:error",
                                           "publish.consensus">>]
           ELSE IF alertData # Null /\ fail = "sendAlert" THEN
             [EWSConsensus |-> saved, EWSReadModel |-> projected,
              consensus |-> consensusData, projected |-> TRUE, alert |-> Null,
              trace |-> <<"consensus.save", "readModel.save", "sendAlert:error">>]
           ELSE
             [EWSConsensus |-> saved, EWSReadModel |-> projected,
              consensus |-> consensusData, projected |-> TRUE, alert |-> alertData,
              trace |-> <<"consensus.save", "readModel.save">>
                        \o (IF alertData # Null THEN <<"sendAlert">> ELSE <<>>)
                        \o (IF fail = "publish.consensus"
                            THEN <<"publish.consensus:false">>
                            ELSE <<"publish.consensus">>)]

\* attemptConsensus(event): the collections after it, the consensus it built
\* and the steps it completed.  recentEvents is the result of the find.
commandHandler_attemptConsensus(event, recentEvents, fail) ==
  LET unchanged == [EWSConsensus |-> EWSConsensus, EWSReadModel |-> EWSReadModel,
                    consensus |-> Null, projected |-> FALSE, alert |-> Null,
                    trace |-> <<>>]
  IN IF fail = "event.find" THEN [unchanged EXCEPT !.trace = <<"event.find:error">>]
     ELSE
     LET scores == LatestScorePerNode(recentEvents, <<>>)
     IN IF ~(Len(scores) >= 2) THEN unchanged
        ELSE
        LET consensus == ewsCalculator_determineConsensus(scores)
            consensusData == NewEWSConsensus(Len(EWSConsensus) + 1, event.patientId, scores)
            saved == Append(EWSConsensus, consensusData)
            readModel == updateReadModel(EWSReadModel[event.patientId], consensusData)
            projected == [EWSReadModel EXCEPT ![event.patientId] = readModel]
            alertNeeded == consensus.consensusScore >= 5 \/ ~consensus.validConsensus
            alertData == IF alertNeeded THEN processEWSAlert(consensusData) ELSE Null
        IN IF fail = "consensus.save" THEN
             [unchanged EXCEPT !.trace = <<"consensus.save:error">>]
           ELSE IF fail = "readModel.save" THEN
             [unchanged EXCEPT !.EWSConsensus = saved, !.consensus = consensusData,
                               !.trace = <<"consensus.save", "readModel.save:error">>]
           ELSE IF alertData # Null /\ fail = "sendAlert" THEN
             [EWSConsensus |-> saved, EWSReadModel |-> projected,
              consensus |-> consensusData, projected |-> TRUE, alert |-> Null,
              trace |-> <<"consensus.save", "readModel.save", "sendAlert:error">>]
           ELSE
             [EWSConsensus |-> saved, EWSReadModel |-> projected,
              consensus |-> consensusData, projected |-> TRUE, alert |-> alertData,
              trace |-> <<"consensus.save", "readModel.save">>
                        \o (IF alertData # Null THEN <<"sendAlert">> ELSE <<>>)
                        \o (IF fail = "publish.consensus"
                            THEN <<"publish.consensus:false">>
                            ELSE <<"publish.consensus">>)]

\* validation of ewsScoreEventSchema on save: vitalSigns.consciousness, when
\* present, must be one of the enum values
ewsScoreEventSchemaAccepts(event) ==
  "consciousness" \in DOMAIN event.vitalSigns =>
    event.vitalSigns.consciousness \in {"Alert", "Voice", "Pain", "Unresponsive"}

\* handleCalculateEWSCommand(command): lastOp.status is 201 when the handler
\* returned the event and 500 when it threw
handleCalculateEWSCommand(command, fail) ==
  /\ LET calc == calculateEWS(command.vitalSigns)
         event == [eventId         |-> Len(EWSScoreEvent) + 1,
                   patientId       |-> command.patientId,
                   nodeId          |-> command.nodeId,
                   eventType       |-> "EWS_CALCULATED",
                   timestamp       |-> command.timestamp,
                   vitalSigns      |-> command.vitalSigns,
                   scoreComponents |-> calc.scoreComponents,
                   totalScore      |-> calc.totalScore,
                   clinicalRisk    |-> calc.clinicalRisk]
     IN IF ~ewsScoreEventSchemaAccepts(event) THEN
          /\ UNCHANGED ewsVars
          /\ lastOp' = [op |-> "calculate-ews", command |-> command, fail |-> fail,
                        status |-> 500, event |-> Null,
                        consensus |-> Null, projected |-> FALSE, alert |-> Null,
                        trace |-> <<"event.save:ValidationError">>]
        ELSE IF fail = "event.save" THEN
          /\ UNCHANGED ewsVars
          /\ lastOp' = [op |-> "calculate-ews", command |-> command, fail |-> fail,
                        status |-> 500, event |-> Null,
                        consensus |-> Null, projected |-> FALSE, alert |-> Null,
                        trace |-> <<"event.save:error">>]
        ELSE
          \E recentEvents \in SortedByTimestamp(RecentEvents(Append(EWSScoreEvent, event), event)) :
            LET r == commandHandler_attemptConsensus(event, recentEvents, fail)
                trace == <<"event.save",
                           IF fail = "publish.calculated" THEN "publish.calculated:false"
                           ELSE "publish.calculated">> \o r.trace
            IN /\ fail # "none" => FailureHit(fail, trace)
               /\ EWSScoreEvent' = Append(EWSScoreEvent, event)
               /\ EWSConsensus' = r.EWSConsensus
               /\ EWSReadModel' = r.EWSReadModel
               /\ EWSReadModelRows' =
                    IF r.projected /\ EWSReadModel[command.patientId] = Null
                    THEN [EWSReadModelRows EXCEPT ![command.patientId] = @ + 1]
                    ELSE EWSReadModelRows
               /\ UNCHANGED projecting
               /\ appended' = IF r.projected
                              THEN [appended EXCEPT ![command.patientId] =
                                      Append(@, HistoryEntry(r.consensus))]
                              ELSE appended
               /\ applications' = IF r.projected
                                  THEN [applications EXCEPT ![command.patientId] =
                                          Append(@, r.consensus)]
                                  ELSE applications
               /\ lastOp' = [op |-> "calculate-ews", command |-> command, fail |-> fail,
                             status |-> 201, event |-> event,
                             consensus |-> r.consensus, projected |-> r.projected,
                             alert |-> r.alert, trace |-> trace]
  /\ UNCHANGED <<collectorVars, pureVars, busVars, alertVars>>


\* router.post('/calculate-ews'): 400 when a vital sign is undefined or the
\* consciousness value is not on the AVPU scale, else the command is handled.
\* router.post('/batch-calculate-ews') with a body of one calculation: the vital
\* signs are not validated; when the handler throws, the error is collected and
\* the response is still 201 (lastOp.status then shows the handler's 500).
PostCommand(route, body) ==
  LET requiredVitals == {"respiratoryRate", "oxygenSaturation", "temperature", "systolicBP",
                         "heartRate", "consciousness"}
      missingVitals == {vital \in requiredVitals : vital \notin DOMAIN body.vitalSigns}
      validConsciousness == {"Alert", "Voice", "Pain", "Unresponsive"}
  IN IF /\ route = "/calculate-ews"
        /\ (missingVitals # {} \/ body.vitalSigns.consciousness \notin validConsciousness)
     THEN
       /\ lastOp' = [op |-> "calculate-ews", command |-> body, fail |-> "none",
                     status |-> 400, event |-> Null,
                     consensus |-> Null, projected |-> FALSE, alert |-> Null,
                     trace |-> <<>>]
       /\ UNCHANGED <<ewsVars, collectorVars, pureVars, busVars, alertVars>>
     ELSE handleCalculateEWSCommand(body, "none")

----------------------------------------------------------------------------
(* Data Collector utils/consensus.js: consensus over per-node sensor readings. *)
(* A consensus value is the exact quotient num / den (den > 0).               *)

valueThreshold == [num |-> 2, den |-> 10]

Value(v) == [num |-> v, den |-> 1]

ValueGroup(readings, value) ==
  SelectSeq(readings, LAMBDA r : r.value = value)

\* a reduce to the earliest timestamp of the group
RECURSIVE ReduceLatestTimestamp_Earliest(_, _)
ReduceLatestTimestamp_Earliest(xs, latest) ==
  IF xs = <<>> THEN latest
  ELSE ReduceLatestTimestamp_Earliest(Tail(xs), IF Head(xs).timestamp < latest
                                                THEN Head(xs).timestamp ELSE latest)

\* valueGroups[value].reduce((latest, current) =>
\*     new Date(current.timestamp) > new Date(latest) ? current.timestamp : latest, first.timestamp)
RECURSIVE ReduceLatestTimestamp(_, _)
ReduceLatestTimestamp(xs, latest) ==
  IF xs = <<>> THEN latest
  ELSE ReduceLatestTimestamp(Tail(xs), IF Head(xs).timestamp > latest
                                       THEN Head(xs).timestamp ELSE latest)

\* Object.keys(valueGroups).forEach(...): find the value with most occurrences
RECURSIVE ValueMajorityScan(_, _, _)
ValueMajorityScan(readings, keys, acc) ==
  IF keys = <<>> THEN acc
  ELSE LET group == ValueGroup(readings, Head(keys))
       IN ValueMajorityScan(readings, Tail(keys),
            IF Len(group) > acc.majorityCount
            THEN [majorityValue     |-> Head(keys),
                  majorityCount     |-> Len(group),
                  majorityTimestamp |-> ReduceLatestTimestamp(group, group[1].timestamp)]
            ELSE acc)

\* the comparison with < in place of <=
WithinValueThreshold_Strict(value, sum, n) ==
  IF sum = 0 THEN FALSE
  ELSE IF sum < 0 THEN TRUE
  ELSE valueThreshold.den * Abs(n * value - sum) < valueThreshold.num * sum

\* Math.abs(value - sum / n) / (sum / n) <= valueThreshold, in exact arithmetic:
\* a zero average gives Infinity or NaN (false), a negative one a negative
\* quotient (true)
WithinValueThreshold(value, sum, n) ==
  IF sum = 0 THEN FALSE
  ELSE IF sum < 0 THEN TRUE
  ELSE valueThreshold.den * Abs(n * value - sum) <= valueThreshold.num * sum

consensusUtil_determineConsensus(readings) ==
  IF Len(readings) = 0 THEN
    [consensusValue |-> Null, consensusTimestamp |-> -1, validConsensus |-> FALSE,
     consensusMethod |-> "null"]
  ELSE IF Len(readings) = 1 THEN
    [consensusValue     |-> Value(readings[1].value),
     consensusTimestamp |-> readings[1].timestamp,
     validConsensus     |-> TRUE,
     consensusMethod    |-> "single"]
  ELSE
    LET timestamps   == {readings[i].timestamp : i \in 1..Len(readings)}
        minTimestamp == SetMin(timestamps)
        maxTimestamp == SetMax(timestamps)
        timeRange    == maxTimestamp - minTimestamp
    IN IF timeRange > timestampThreshold THEN
         LET latestReading == ReduceLatest(readings, readings[1])
         IN [consensusValue     |-> Value(latestReading.value),
             consensusTimestamp |-> latestReading.timestamp,
             validConsensus     |-> TRUE,
             consensusMethod    |-> "latest"]
       ELSE
         LET keys == AscendingKeys({readings[i].value : i \in 1..Len(readings)})
             m == ValueMajorityScan(readings, keys,
                    [majorityValue |-> -1, majorityCount |-> 0, majorityTimestamp |-> -1])
             hasMajority == 2 * m.majorityCount > Len(readings)
             sum == SumSeq([i \in 1..Len(readings) |-> readings[i].value])
             avgValue == [num |-> sum, den |-> Len(readings)]
             allWithinThreshold ==
               \A i \in 1..Len(readings) :
                 WithinValueThreshold(readings[i].value, sum, Len(readings))
         IN IF ~hasMajority THEN
              IF allWithinThreshold THEN
                [consensusValue     |-> avgValue,
                 consensusTimestamp |-> maxTimestamp,
                 validConsensus     |-> TRUE,
                 consensusMethod    |-> "average"]
              ELSE
                [consensusValue     |-> avgValue,
                 consensusTimestamp |-> maxTimestamp,
                 validConsensus     |-> FALSE,
                 consensusMethod    |-> "none"]
            ELSE
              [consensusValue     |-> Value(m.majorityValue),
               consensusTimestamp |-> m.majorityTimestamp,
               validConsensus     |-> TRUE,
               consensusMethod    |-> "majority"]

\* value < bound and value > bound for an exact quotient
ValueBelow(value, bound) == value.num < bound * value.den
ValueAbove(value, bound) == value.num > bound * value.den

\* defaultThresholds of checkForAlert; <<low, high>> per sensor type it knows
AlertThresholds ==
  [heartRate |-> <<40, 120>>, temperature |-> <<35, 39>>,
   bloodPressureSystolic |-> <<90, 180>>, bloodPressureDiastolic |-> <<60, 120>>,
   oxygenSaturation |-> <<90, 100>>, respiratoryRate |-> <<8, 25>>]

NoAlert == [requiresAlert |-> FALSE, alertType |-> "null", alertSeverity |-> "null"]

checkForAlert(doc) ==
  IF ~doc.validConsensus THEN
    [requiresAlert |-> TRUE, alertType |-> "DATA_INCONSISTENCY", alertSeverity |-> "MEDIUM"]
  ELSE IF doc.sensorType \notin DOMAIN AlertThresholds THEN NoAlert
  ELSE IF ValueBelow(doc.consensusValue, AlertThresholds[doc.sensorType][1]) THEN
    [requiresAlert |-> TRUE, alertType |-> "BELOW_THRESHOLD", alertSeverity |-> "HIGH"]
  ELSE IF ValueAbove(doc.consensusValue, AlertThresholds[doc.sensorType][2]) THEN
    [requiresAlert |-> TRUE, alertType |-> "ABOVE_THRESHOLD", alertSeverity |-> "HIGH"]
  ELSE NoAlert

----------------------------------------------------------------------------
(* Data Collector utils/ewsHelper.js *)

REQUIRED_VITAL_SIGNS ==
  {"respiratoryRate", "oxygenSaturation", "temperature", "systolicBP", "heartRate",
   "consciousness"}

mapSensorTypeToEWS(sensorType) ==
  CASE sensorType = "respRate"   -> "respiratoryRate"
    [] sensorType = "spo2"       -> "oxygenSaturation"
    [] sensorType = "bpSystolic" -> "systolicBP"
    [] OTHER                     -> sensorType

\* parseInt(value, 10) of a non-negative quotient truncates it; 0..3 map to the
\* AVPU scale and everything else defaults to "Alert"
mapConsciousnessValue(value) ==
  LET numValue == value.num \div value.den
  IN CASE numValue = 0 -> "Alert"
       [] numValue = 1 -> "Voice"
       [] numValue = 2 -> "Pain"
       [] numValue = 3 -> "Unresponsive"
       [] OTHER        -> "Alert"

\* vitalSigns is a function from the vital names present to their values
hasAllRequiredVitalSigns(vitalSigns) ==
  \A vital \in REQUIRED_VITAL_SIGNS : vital \in DOMAIN vitalSigns

----------------------------------------------------------------------------
(* Data Collector routes: attemptConsensus and checkAndTriggerEWSCalculation *)

Reverse(xs) == [i \in 1..Len(xs) |-> xs[Len(xs) + 1 - i]]

\* the two routes files of the repository differ in the window they query and
\* in the number of nodes they require
RouterFiles == {"sensorData.js", "part_003"}

WindowBefore(file) == IF file = "sensorData.js" THEN 30 * 1000 ELSE 300000 * 1000
WindowAfter(file)  == IF file = "sensorData.js" THEN 5000 ELSE 500000
Quorum(file)       == IF file = "sensorData.js" THEN 2 ELSE 3

\* the query of attemptConsensus over the SensorData collection
RecentReadings(file, store, newReading) ==
  {reading \in Range(store) :
     /\ reading.patientId = newReading.patientId
     /\ reading.sensorType = newReading.sensorType
     /\ reading.timestamp >= newReading.timestamp - WindowBefore(file)
     /\ reading.timestamp <= newReading.timestamp + WindowAfter(file)}

\* recentReadings.forEach(r => { nodeReadings[r.nodeId] = {...} }); Object.values(nodeReadings)
RECURSIVE LatestReadingPerNode(_, _)
LatestReadingPerNode(recentReadings, nodeReadings) ==
  IF recentReadings = <<>> THEN nodeReadings
  ELSE LET reading == Head(recentReadings)
       IN LatestReadingPerNode(Tail(recentReadings),
            PutByNode(nodeReadings,
              [nodeId    |-> reading.nodeId,
               value     |-> reading.value,
               timestamp |-> reading.timestamp]))

\* validation of consensusDataSchema on save: consensusMethod is required and
\* must be one of the enum values, consensusValue and consensusTimestamp are required
consensusDataSchemaAccepts(doc) ==
  /\ doc.consensusMethod \in {"majority", "latest", "average", "single"}
  /\ doc.consensusValue # Null

\* $sort { consensusTimestamp: -1 }, $group by sensorType with $first: the sets
\* holding, for each sensor type, one document of the greatest
\* consensusTimestamp (documents of equal timestamp come in any order)
RECURSIVE LatestPerType(_, _)
LatestPerType(valid, types) ==
  IF types = {} THEN {{}}
  ELSE LET t == CHOOSE t \in types : TRUE
           best == {d \in valid :
                      /\ d.sensorType = t
                      /\ \A e \in valid : e.sensorType = t =>
                           e.consensusTimestamp <= d.consensusTimestamp}
       IN UNION {{rest \cup {d} : rest \in LatestPerType(valid, types \ {t})} : d \in best}

\* the final $sort { consensusTimestamp: -1 }: every newest-first order of docs
RECURSIVE NewestFirst(_)
NewestFirst(docs) ==
  IF docs = {} THEN {<<>>}
  ELSE LET newest == {d \in docs :
                        \A e \in docs : e.consensusTimestamp <= d.consensusTimestamp}
       IN UNION {{<<d>> \o s : s \in NewestFirst(docs \ {d})} : d \in newest}

\* ConsensusData.aggregate([...]) of checkAndTriggerEWSCalculation: for each
\* sensorType the valid consensus of the patient with the greatest
\* consensusTimestamp, newest first; ties are returned in any order
LatestValidConsensus(store, patientId) ==
  LET valid == {d \in Range(store) : d.patientId = patientId /\ d.validConsensus}
      types == {d.sensorType : d \in valid}
  IN UNION {NewestFirst(group) : group \in LatestPerType(valid, types)}

\* timestamp < fiveMinutesAgo, where fiveMinutesAgo = now - 50000 * 60 * 1000 ms;
\* compared on whole seconds and the millisecond remainders, since the product
\* exceeds 32 bits
BeforeFiveMinutesAgo(timestamp, now) ==
  LET cutoffSeconds == (now \div 1000) - 50000 * 60
  IN \/ timestamp \div 1000 < cutoffSeconds
     \/ timestamp \div 1000 = cutoffSeconds /\ timestamp % 1000 < now % 1000

\* checkAndTriggerEWSCalculation: the request sent to the EWS Service, or Null.
\* latestConsensusData is the result of the aggregation, now is Date.now().
checkAndTriggerEWSCalculation(patientId, latestConsensusData, now) ==
  LET kept == SelectSeq(latestConsensusData,
                        LAMBDA c : ~BeforeFiveMinutesAgo(c.consensusTimestamp, now))
      names == {mapSensorTypeToEWS(kept[i].sensorType) : i \in 1..Len(kept)}
      \* later iterations overwrite earlier ones
      raw == [name \in names |->
                kept[SetMax({i \in 1..Len(kept) :
                               mapSensorTypeToEWS(kept[i].sensorType) = name})].consensusValue]
      withConsciousness ==
        IF "consciousness" \in names
        THEN [name \in names |-> IF name = "consciousness"
                                 THEN mapConsciousnessValue(raw[name]) ELSE raw[name]]
        ELSE IF names # {}
        THEN [name \in names \cup {"consciousness"} |->
                IF name = "consciousness" THEN "Alert" ELSE raw[name]]
        ELSE raw
      sourceNodeId == IF kept # <<>> THEN kept[1].readings[1].nodeId
                      ELSE "data-collector-node"
  IN IF hasAllRequiredVitalSigns(withConsciousness)
     THEN [patientId |-> patientId, nodeId |-> sourceNodeId,
           vitalSigns |-> withConsciousness, timestamp |-> now]
     ELSE Null

\* Places where a storage or network call of the ingestion can be made to fail
CollectorFailurePoints ==
  {"none", "sensorData.save", "sensorData.find", "consensusData.save", "sendAlert",
   "calculateEWS"}

\* attemptConsensus(newReading) of the mounted routes file, up to the log line:
\* the ConsensusData collection after it and what it emitted.  store is the
\* SensorData collection after the save, recentReadings the result of the find.
sensorData_attemptConsensus(file, store, cstore, newReading, recentReadings, fail) ==
  LET nothing == [ConsensusData |-> cstore, consensus |-> Null, persisted |-> FALSE,
                  alert |-> Null, completed |-> FALSE, trace |-> <<>>]
  IN IF fail = "sensorData.find" THEN [nothing EXCEPT !.trace = <<"sensorData.find:error">>]
     ELSE
     LET readings == LatestReadingPerNode(recentReadings, <<>>)
     IN IF ~(Len(readings) >= Quorum(file)) THEN nothing
        ELSE
        LET consensus == consensusUtil_determineConsensus(readings)
            doc == [consensusId        |-> Len(cstore) + 1,
                    patientId          |-> newReading.patientId,
                    sensorType         |-> newReading.sensorType,
                    readings           |-> readings,
                    consensusValue     |-> consensus.consensusValue,
                    consensusTimestamp |-> consensus.consensusTimestamp,
                    validConsensus     |-> consensus.validConsensus,
                    consensusMethod    |-> consensus.consensusMethod]
            alertInfo == checkForAlert(doc)
            alertData == IF alertInfo.requiresAlert
                         THEN [patientId     |-> doc.patientId,
                               sensorType    |-> doc.sensorType,
                               value         |-> doc.consensusValue,
                               timestamp     |-> doc.consensusTimestamp,
                               alertType     |-> alertInfo.alertType,
                               alertSeverity |-> alertInfo.alertSeverity]
                         ELSE Null
        IN IF ~consensusDataSchemaAccepts(doc) THEN
             [nothing EXCEPT !.consensus = doc,
                             !.trace = <<"consensusData.save:ValidationError">>]
           ELSE IF fail = "consensusData.save" THEN
             [nothing EXCEPT !.consensus = doc, !.trace = <<"consensusData.save:error">>]
           ELSE IF alertData # Null /\ fail = "sendAlert" THEN
             [ConsensusData |-> Append(cstore, doc), consensus |-> doc, persisted |-> TRUE,
              alert |-> Null, completed |-> FALSE,
              trace |-> <<"consensusData.save", "sendAlert:error">>]
           ELSE
             [ConsensusData |-> Append(cstore, doc), consensus |-> doc, persisted |-> TRUE,
              alert |-> alertData, completed |-> TRUE,
              trace |-> <<"consensusData.save">>
                        \o (IF alertData # Null THEN <<"sendAlert">> ELSE <<>>)]

\* One reading through the route: new SensorData(body).save(), then
\* attemptConsensus, which in part_003 ends with checkAndTriggerEWSCalculation.
\* The set holds one outcome for every order the store may return ties in.
IngestOutcomes(file, store, cstore, reading, fail, now) ==
  IF fail = "sensorData.save" THEN
    {[SensorData |-> store, ConsensusData |-> cstore, threw |-> TRUE,
      result |-> [reading |-> reading, fail |-> fail, consensus |-> Null,
                  persisted |-> FALSE, alert |-> Null, checked |-> FALSE,
                  ewsRequest |-> Null, trace |-> <<"sensorData.save:error">>]]}
  ELSE
    LET stored == Append(store, reading)
        attempts == {sensorData_attemptConsensus(file, stored, cstore, reading, recent, fail) :
                       recent \in SortedByTimestamp(RecentReadings(file, stored, reading))}
        checks(r) == IF r.completed /\ file = "part_003"
                     THEN LatestValidConsensus(r.ConsensusData, reading.patientId)
                     ELSE {<<>>}
    IN UNION {
         {[SensorData |-> stored, ConsensusData |-> r.ConsensusData, threw |-> FALSE,
           result |->
             LET checked == r.completed /\ file = "part_003"
                 request == IF checked
                            THEN checkAndTriggerEWSCalculation(reading.patientId, latest, now)
                            ELSE Null
             IN [reading |-> reading, fail |-> fail, consensus |-> r.consensus,
                 persisted |-> r.persisted, alert |-> r.alert, checked |-> checked,
                 ewsRequest |-> IF fail = "calculateEWS" THEN Null ELSE request,
                 trace |-> <<"sensorData.save">> \o r.trace
                           \o (IF ~checked THEN <<>>
                               ELSE IF request = Null THEN <<"checkAndTrigger">>
                               ELSE IF fail = "calculateEWS"
                               THEN <<"checkAndTrigger", "calculateEWS:error">>
                               ELSE <<"checkAndTrigger", "calculateEWS">>)]]
          : latest \in checks(r)}
         : r \in attempts}

PostSensor_AttemptFailureIs500(reading, fail, now) ==
  /\ \E o \in IngestOutcomes(router, SensorData, ConsensusData, reading, fail, now) :
       /\ fail # "none" => FailureHit(fail, o.result.trace)
       /\ SensorData' = o.SensorData
       /\ ConsensusData' = o.ConsensusData
       /\ lastOp' = [op |-> "sensor",
                     status |-> IF o.threw \/ fail = "consensusData.save" THEN 500 ELSE 201,
                     now |-> now, results |-> <<o.result>>]
  /\ UNCHANGED <<router, ewsVars, pureVars, busVars, alertVars>>

\* POST /api/data/sensor
PostSensor(reading, fail, now) ==
  /\ \E o \in IngestOutcomes(router, SensorData, ConsensusData, reading, fail, now) :
       /\ fail # "none" => FailureHit(fail, o.result.trace)
       /\ SensorData' = o.SensorData
       /\ ConsensusData' = o.ConsensusData
       /\ lastOp' = [op |-> "sensor", status |-> IF o.threw THEN 500 ELSE 201,
                     now |-> now, results |-> <<o.result>>]
  /\ UNCHANGED <<router, ewsVars, pureVars, busVars, alertVars>>

\* POST /api/data/batch with a body of two readings (an empty body is a 400
\* without effect); a failing save ends the loop with a 500
PostBatch(readings, fail, now) ==
  /\ \E o1 \in IngestOutcomes(router, SensorData, ConsensusData, readings[1], "none", now) :
       \E o2 \in IngestOutcomes(router, o1.SensorData, o1.ConsensusData, readings[2], fail, now) :
         /\ fail # "none" => FailureHit(fail, o2.result.trace)
         /\ SensorData' = o2.SensorData
         /\ ConsensusData' = o2.ConsensusData
         /\ lastOp' = [op |-> "batch", status |-> IF o2.threw THEN 500 ELSE 201,
                       now |-> now, results |-> <<o1.result, o2.result>>]
  /\ UNCHANGED <<router, ewsVars, pureVars, busVars, alertVars>>

----------------------------------------------------------------------------
(* Inputs of the scoring pipeline *)

\* every vital sign in its band of score 0
NormalVitals == [respiratoryRate |-> T(18), oxygenSaturation |-> T(96), temperature |-> 371,
                 systolicBP |-> T(125), heartRate |-> T(72), consciousness |-> "Alert"]

\* NEWS2 total 3 (consciousness Voice)
Vitals3 == [respiratoryRate |-> T(18), oxygenSaturation |-> T(96), temperature |-> 371,
            systolicBP |-> T(125), heartRate |-> T(72), consciousness |-> "Voice"]
\* NEWS2 total 4 (consciousness Voice, heart rate 95)
Vitals4 == [respiratoryRate |-> T(18), oxygenSaturation |-> T(96), temperature |-> 371,
            systolicBP |-> T(125), heartRate |-> T(95), consciousness |-> "Voice"]
\* NEWS2 total 8 (respiratory rate 25, heart rate 115, consciousness Pain)
Vitals8 == [respiratoryRate |-> T(25), oxygenSaturation |-> T(96), temperature |-> 371,
            systolicBP |-> T(125), heartRate |-> T(115), consciousness |-> "Pain"]

\* timestamps that meet both ends of the window [t - 30 s, t + 5 s] and the
\* 5 s consensus threshold
Times == {0, 5000, 35000}

Commands ==
  [patientId : {"P1"}, nodeId : Nodes, timestamp : Times, vitalSigns : {Vitals3, Vitals8}]
  \cup [patientId : {"P2"}, nodeId : {"node-1"}, timestamp : {5000}, vitalSigns : {Vitals8}]

\* commands served while storage and network calls may fail
FaultyCommands ==
  [patientId : {"P1"}, nodeId : Nodes, timestamp : {5000}, vitalSigns : {Vitals3, Vitals8}]

----------------------------------------------------------------------------
(* Alert Engine Service: models/alert.js, services/alertProcessor.js and the
   alert routes.  A stored alert keeps the fields the lifecycle reads or
   writes; message, timestamp, payloads and notificationsSent are left out.
   escalationReason and resolution are no paths of the schema, so save()
   does not persist them. *)

\* uuidv4 values the alertId default can draw
AlertIds == {"alert-1"}

\* userId of an acknowledge or resolve request; "" is a missing userId
Users == {"nurse-1", "nurse-2"}

\* new Date() while the requests are served
AlertClock == {70000}

\* schema default null of acknowledgedBy and resolvedBy
NoUser == "null"

\* schema default null of acknowledgedAt and resolvedAt
NoDate == -1

AlertTypes ==
  {"EWS_CRITICAL", "EWS_URGENT", "EWS_ELEVATED", "EWS_DATA_INCONSISTENCY",
   "SENSOR_CRITICAL", "SENSOR_WARNING", "SYSTEM_ERROR", "BELOW_THRESHOLD",
   "ABOVE_THRESHOLD", "DATA_INCONSISTENCY"}

AlertSeverities == {"HIGH", "MEDIUM", "LOW"}

AlertStatuses == {"NEW", "ACKNOWLEDGED", "RESOLVED", "ESCALATED"}

\* the validators of alertSchema that run at save()
alertSchemaAccepts(doc) ==
  /\ doc.alertType \in AlertTypes
  /\ doc.alertSeverity \in AlertSeverities
  /\ doc.status \in AlertStatuses
  /\ doc.priority >= 1
  /\ doc.priority <= 100

calculatePriority_NoTypeAdjustment(alert) ==
  LET base == CASE alert.alertSeverity = "HIGH" -> 80
                [] alert.alertSeverity = "MEDIUM" -> 50
                [] alert.alertSeverity = "LOW" -> 30
                [] OTHER -> 10
  IN Max(1, Min(100, base))

calculatePriority(alert) ==
  LET base == CASE alert.alertSeverity = "HIGH" -> 80
                [] alert.alertSeverity = "MEDIUM" -> 50
                [] alert.alertSeverity = "LOW" -> 30
                [] OTHER -> 10
      adjusted == CASE alert.alertType = "EWS_CRITICAL" -> base + 20
                    [] alert.alertType = "EWS_URGENT" -> base + 15
                    [] alert.alertType = "EWS_ELEVATED" -> base + 10
                    [] alert.alertType = "SENSOR_CRITICAL" -> base + 18
                    [] alert.alertType = "SENSOR_WARNING" -> base + 8
                    [] OTHER -> base + 0
  IN Max(1, Min(100, adjusted))

\* new Alert({...alertData, priority, status: 'NEW'}) with the schema defaults
NewAlert(alertData, alertId) ==
  [alertId |-> alertId,
   patientId |-> alertData.patientId,
   alertType |-> alertData.alertType,
   alertSeverity |-> alertData.alertSeverity,
   status |-> "NEW",
   priority |-> calculatePriority(alertData),
   acknowledgedBy |-> NoUser,
   acknowledgedAt |-> NoDate,
   resolvedBy |-> NoUser,
   resolvedAt |-> NoDate]

\* processAlert: the alert it stores, or the error alert.save() throws
processAlert(alertData, alertId) ==
  LET alert == NewAlert(alertData, alertId)
  IN IF alertSchemaAccepts(alert)
       THEN [error |-> "none", alert |-> alert]
       ELSE [error |-> "ValidationError", alert |-> Null]

\* the paths an assignment changed: only these are written by save()
ModifiedPaths(loaded, modified) ==
  {path \in DOMAIN loaded : loaded[path] # modified[path]}

\* the update save() sends: the modified paths with their new values
UpdateOf(loaded, modified) ==
  [path \in ModifiedPaths(loaded, modified) |-> modified[path]]

\* the stored document after the update
ApplyUpdate(stored, update) ==
  [path \in DOMAIN stored |->
     IF path \in DOMAIN update THEN update[path] ELSE stored[path]]

\* alert.save() of a document loaded as `loaded` and changed to `modified`:
\* validation, then an update that sets the modified paths on whatever
\* document is stored at that moment
documentSave(stored, loaded, modified) ==
  IF ~alertSchemaAccepts(modified)
    THEN [error |-> "ValidationError", alert |-> stored]
    ELSE [error |-> "none",
          alert |-> ApplyUpdate(stored, UpdateOf(loaded, modified))]

\* the status the routes answer with when the processor throws
RouteStatus(error) ==
  CASE error = "none" -> 200
    [] error = "not found" -> 404
    [] OTHER -> 500

\* acknowledgeAlert up to its save(): the result of findOne, the two throws
\* and the three assignments
acknowledgeAlert_assign_AnyStatus(alert, userId, now) ==
  IF alert = Null THEN [error |-> "not found"]
  ELSE [error |-> "none",
        alert |-> [alert EXCEPT !.status = "ACKNOWLEDGED",
                                !.acknowledgedBy = userId,
                                !.acknowledgedAt = now]]

acknowledgeAlert_assign(alert, userId, now) ==
  IF alert = Null THEN [error |-> "not found"]
  ELSE IF alert.status # "NEW" /\ alert.status # "ESCALATED"
    THEN [error |-> "cannot acknowledge"]
  ELSE [error |-> "none",
        alert |-> [alert EXCEPT !.status = "ACKNOWLEDGED",
                                !.acknowledgedBy = userId,
                                !.acknowledgedAt = now]]

\* resolveAlert up to its save()
resolveAlert_assign(alert, userId, now) ==
  IF alert = Null THEN [error |-> "not found"]
  ELSE IF alert.status = "RESOLVED"
    THEN [error |-> "already resolved"]
  ELSE [error |-> "none",
        alert |-> [alert EXCEPT !.status = "RESOLVED",
                                !.resolvedBy = userId,
                                !.resolvedAt = now]]

\* escalateAlert up to its save()
escalateAlert_assign_FromAnyStatus(alert) ==
  IF alert = Null THEN [error |-> "not found"]
  ELSE [error |-> "none",
        alert |-> [alert EXCEPT !.status = "ESCALATED",
                                !.priority = Min(100, alert.priority + 10)]]

escalateAlert_assign(alert) ==
  IF alert = Null THEN [error |-> "not found"]
  ELSE IF alert.status = "RESOLVED"
    THEN [error |-> "cannot escalate"]
  ELSE [error |-> "none",
        alert |-> [alert EXCEPT !.status = "ESCALATED",
                                !.priority = Min(100, alert.priority + 10)]]

\* the three operations when nothing else touches the alert between their
\* findOne and their save(): the error thrown and the document then stored
acknowledgeAlert(stored, userId, now) ==
  LET assigned == acknowledgeAlert_assign(stored, userId, now)
  IN IF assigned.error # "none"
       THEN [error |-> assigned.error, alert |-> stored]
       ELSE documentSave(stored, stored, assigned.alert)

resolveAlert(stored, userId, now) ==
  LET assigned == resolveAlert_assign(stored, userId, now)
  IN IF assigned.error # "none"
       THEN [error |-> assigned.error, alert |-> stored]
       ELSE documentSave(stored, stored, assigned.alert)

escalateAlert_Unbounded(stored) ==
  IF stored = Null THEN [error |-> "not found", alert |-> stored]
  ELSE IF stored.status = "RESOLVED"
    THEN [error |-> "cannot escalate", alert |-> stored]
  ELSE [error |-> "none",
        alert |-> [stored EXCEPT !.status = "ESCALATED",
                                 !.priority = stored.priority + 10]]

escalateAlert(stored) ==
  LET assigned == escalateAlert_assign(stored)
  IN IF assigned.error # "none"
       THEN [error |-> assigned.error, alert |-> stored]
       ELSE documentSave(stored, stored, assigned.alert)

\* what a sendNotification call can run into: the mail is sent, sendMail
\* throws, or the save of the result throws
EmailOutcomes == {"sent", "failed", "save.error"}

\* AlertSubscription.find(query) of findRelevantSubscriptions: the patient and
\* the type conditions are pushed onto one $or
findRelevantSubscriptions(alert) ==
  SelectSeq(AlertSubscription, LAMBDA subscription :
    /\ subscription.active
    /\ CASE alert.alertSeverity = "MEDIUM" -> subscription.minSeverity \in {"MEDIUM", "LOW"}
         [] alert.alertSeverity = "LOW" -> subscription.minSeverity = "LOW"
         [] OTHER -> TRUE
    /\ \/ subscription.patientId = alert.patientId
       \/ subscription.patientId = "null"
       \/ subscription.alertTypes = {}
       \/ alert.alertType \in subscription.alertTypes)

\* AlertSubscription.find(...) of escalateAlert
escalationSubscriptions_AnySubscriber(alert) ==
  SelectSeq(AlertSubscription, LAMBDA subscription :
    /\ subscription.active
    /\ (subscription.patientId = alert.patientId \/ subscription.patientId = "null")
    /\ subscription.minSeverity \in {"HIGH"})

escalationSubscriptions(alert) ==
  SelectSeq(AlertSubscription, LAMBDA subscription :
    /\ subscription.active
    /\ subscription.subscriberType = "DEPARTMENT"
    /\ (subscription.patientId = alert.patientId \/ subscription.patientId = "null")
    /\ subscription.minSeverity \in {"HIGH"})

sendSubscriptionNotifications_AllChannels(alert, subscription) ==
  LET emailChannels == subscription.channels
  IN [i \in 1..Len(emailChannels) |->
        [alertId |-> alert.alertId,
         patientId |-> alert.patientId,
         recipient |-> emailChannels[i].contact,
         recipientName |-> <<subscription.subscriberType, subscription.subscriberId>>,
         content |-> [prefix |-> CASE alert.alertSeverity = "HIGH" -> "CRITICAL ALERT: "
                                   [] alert.alertSeverity = "MEDIUM" -> "URGENT ALERT: "
                                   [] OTHER -> "ALERT: ",
                      patientId |-> alert.patientId,
                      alertType |-> alert.alertType,
                      alertSeverity |-> alert.alertSeverity]]]

\* sendSubscriptionNotifications: the notificationData of its sendNotification
\* calls, one per enabled EMAIL channel; the content is kept as the fields of
\* the alert that createNotificationContent writes into it
sendSubscriptionNotifications(alert, subscription) ==
  LET emailChannels == SelectSeq(subscription.channels,
                                 LAMBDA c : c.enabled /\ c.type = "EMAIL")
  IN [i \in 1..Len(emailChannels) |->
        [alertId |-> alert.alertId,
         patientId |-> alert.patientId,
         recipient |-> emailChannels[i].contact,
         recipientName |-> <<subscription.subscriberType, subscription.subscriberId>>,
         content |-> [prefix |-> CASE alert.alertSeverity = "HIGH" -> "CRITICAL ALERT: "
                                   [] alert.alertSeverity = "MEDIUM" -> "URGENT ALERT: "
                                   [] OTHER -> "ALERT: ",
                      patientId |-> alert.patientId,
                      alertType |-> alert.alertType,
                      alertSeverity |-> alert.alertSeverity]]]

\* the sendNotification calls made for the subscriptions, in their order
RECURSIVE sendAlertNotifications(_, _)
sendAlertNotifications(alert, subscriptions) ==
  IF subscriptions = <<>> THEN <<>>
  ELSE sendSubscriptionNotifications(alert, Head(subscriptions))
       \o sendAlertNotifications(alert, Tail(subscriptions))

\* sendNotification: the Notification record it leaves in the collection
sendNotification_ErrorNotRecorded(notificationData, notificationId, outcome, now) ==
  LET pending == [notificationId |-> notificationId,
                  alertId |-> notificationData.alertId,
                  patientId |-> notificationData.patientId,
                  channel |-> "EMAIL",
                  recipient |-> notificationData.recipient,
                  recipientName |-> notificationData.recipientName,
                  content |-> notificationData.content,
                  status |-> "PENDING",
                  sentAt |-> NoDate,
                  errorMessage |-> "null"]
  IN CASE outcome = "sent" -> [pending EXCEPT !.status = "SENT", !.sentAt = now]
       [] outcome = "failed" -> [pending EXCEPT !.status = "FAILED", !.sentAt = now]
       [] OTHER -> pending

sendNotification(notificationData, notificationId, outcome, now) ==
  LET pending == [notificationId |-> notificationId,
                  alertId |-> notificationData.alertId,
                  patientId |-> notificationData.patientId,
                  channel |-> "EMAIL",
                  recipient |-> notificationData.recipient,
                  recipientName |-> notificationData.recipientName,
                  content |-> notificationData.content,
                  status |-> "PENDING",
                  sentAt |-> NoDate,
                  errorMessage |-> "null"]
  IN CASE outcome = "sent" -> [pending EXCEPT !.status = "SENT", !.sentAt = now]
       [] outcome = "failed" -> [pending EXCEPT !.status = "FAILED", !.sentAt = now,
                                                !.errorMessage = "sendMail error"]
       [] OTHER -> pending

\* the Notification collection after the calls, each with a fresh
\* notificationId
sendNotifications(store, calls, outcome, now) ==
  store \o [i \in 1..Len(calls) |->
              sendNotification(calls[i], Len(store) + i, outcome[i], now)]

\* whether the AlertSubscription.find of findRelevantSubscriptions throws;
\* with an empty collection the throw and the empty result end alike
FindOutcomes == IF AlertSubscription = <<>> THEN {FALSE} ELSE BOOLEAN

PostAlert_NotificationFailureFails(body, alertId, now) ==
  /\ IF body.alertSeverity \notin {"HIGH", "MEDIUM", "LOW"}
       THEN /\ lastOp' = [op |-> "create-alert", alertId |-> alertId,
                          body |-> body, status |-> 400]
            /\ UNCHANGED <<Alert, Notification>>
       ELSE LET created == processAlert(body, alertId)
            IN IF created.error # "none"
                 THEN /\ lastOp' = [op |-> "create-alert", alertId |-> alertId,
                                    body |-> body, status |-> 500]
                      /\ UNCHANGED <<Alert, Notification>>
                 ELSE \E findError \in FindOutcomes :
                      LET calls == IF findError THEN <<>>
                                   ELSE sendAlertNotifications(created.alert,
                                          findRelevantSubscriptions(created.alert))
                      IN \E outcome \in [1..Len(calls) -> EmailOutcomes] :
                           /\ lastOp' = [op |-> "create-alert", alertId |-> alertId,
                                         body |-> body,
                                         status |-> IF \E k \in 1..Len(calls) :
                                                         outcome[k] = "save.error"
                                                    THEN 500 ELSE 201,
                                         now |-> now,
                                         findError |-> findError, outcome |-> outcome]
                           /\ Alert' = [Alert EXCEPT ![alertId] = created.alert]
                           /\ Notification' = sendNotifications(Notification, calls,
                                                                outcome, now)
  /\ UNCHANGED <<inflight, AlertSubscription, ewsVars, collectorVars, pureVars, busVars>>

\* POST /api/alerts
PostAlert(body, alertId, now) ==
  /\ IF body.alertSeverity \notin {"HIGH", "MEDIUM", "LOW"}
       THEN /\ lastOp' = [op |-> "create-alert", alertId |-> alertId,
                          body |-> body, status |-> 400]
            /\ UNCHANGED <<Alert, Notification>>
       ELSE LET created == processAlert(body, alertId)
            IN IF created.error # "none"
                 THEN /\ lastOp' = [op |-> "create-alert", alertId |-> alertId,
                                    body |-> body, status |-> 500]
                      /\ UNCHANGED <<Alert, Notification>>
                 ELSE \E findError \in FindOutcomes :
                      LET calls == IF findError THEN <<>>
                                   ELSE sendAlertNotifications(created.alert,
                                          findRelevantSubscriptions(created.alert))
                      IN \E outcome \in [1..Len(calls) -> EmailOutcomes] :
                           /\ lastOp' = [op |-> "create-alert", alertId |-> alertId,
                                         body |-> body, status |-> 201, now |-> now,
                                         findError |-> findError, outcome |-> outcome]
                           /\ Alert' = [Alert EXCEPT ![alertId] = created.alert]
                           /\ Notification' = sendNotifications(Notification, calls,
                                                                outcome, now)
  /\ UNCHANGED <<inflight, AlertSubscription, ewsVars, collectorVars, pureVars, busVars>>

\* PUT /api/alerts/:alertId/acknowledge, served without interleaving
PutAcknowledge(alertId, userId, now) ==
  /\ IF userId = ""
       THEN /\ lastOp' = [op |-> "acknowledge", alertId |-> alertId,
                          userId |-> userId, now |-> now, status |-> 400,
                          before |-> Alert[alertId]]
            /\ UNCHANGED Alert
       ELSE LET result == acknowledgeAlert(Alert[alertId], userId, now)
            IN /\ lastOp' = [op |-> "acknowledge", alertId |-> alertId,
                             userId |-> userId, now |-> now,
                             status |-> RouteStatus(result.error),
                             before |-> Alert[alertId]]
               /\ Alert' = [Alert EXCEPT ![alertId] = result.alert]
  /\ UNCHANGED <<inflight, AlertSubscription, Notification, ewsVars, collectorVars, pureVars, busVars>>

\* PUT /api/alerts/:alertId/resolve, served without interleaving
PutResolve(alertId, userId, now) ==
  /\ IF userId = ""
       THEN /\ lastOp' = [op |-> "resolve", alertId |-> alertId,
                          userId |-> userId, now |-> now, status |-> 400,
                          before |-> Alert[alertId]]
            /\ UNCHANGED Alert
       ELSE LET result == resolveAlert(Alert[alertId], userId, now)
            IN /\ lastOp' = [op |-> "resolve", alertId |-> alertId,
                             userId |-> userId, now |-> now,
                             status |-> RouteStatus(result.error),
                             before |-> Alert[alertId]]
               /\ Alert' = [Alert EXCEPT ![alertId] = result.alert]
  /\ UNCHANGED <<inflight, AlertSubscription, Notification, ewsVars, collectorVars, pureVars, busVars>>

\* PUT /api/alerts/:alertId/escalate, served without interleaving: after the
\* save, the escalation notifications
PutEscalate(alertId, now) ==
  /\ LET result == escalateAlert(Alert[alertId])
         calls == IF result.error = "none"
                  THEN sendAlertNotifications(result.alert,
                                              escalationSubscriptions(result.alert))
                  ELSE <<>>
     IN \E outcome \in [1..Len(calls) -> EmailOutcomes] :
          /\ lastOp' = [op |-> "escalate", alertId |-> alertId,
                        status |-> RouteStatus(result.error),
                        before |-> Alert[alertId], now |-> now, outcome |-> outcome]
          /\ Alert' = [Alert EXCEPT ![alertId] = result.alert]
          /\ Notification' = sendNotifications(Notification, calls, outcome, now)
  /\ UNCHANGED <<inflight, AlertSubscription, ewsVars, collectorVars, pureVars, busVars>>

\* POST /api/notifications/resend/:notificationId
PostResend_AnyStatus(notificationId, now) ==
  /\ IF notificationId \notin 1..Len(Notification)
       THEN /\ lastOp' = [op |-> "resend", notificationId |-> notificationId,
                          status |-> 404]
            /\ UNCHANGED Notification
       ELSE LET notification == Notification[notificationId]
                resendData == [alertId |-> notification.alertId,
                               patientId |-> notification.patientId,
                               channel |-> notification.channel,
                               recipient |-> notification.recipient,
                               recipientName |-> notification.recipientName,
                               content |-> notification.content]
            IN \E outcome \in [1..1 -> EmailOutcomes] :
                 /\ lastOp' = [op |-> "resend", notificationId |-> notificationId,
                               status |-> IF outcome[1] = "save.error" THEN 500
                                          ELSE 200,
                               now |-> now, outcome |-> outcome]
                 /\ Notification' = sendNotifications(Notification, <<resendData>>,
                                                      outcome, now)
  /\ UNCHANGED <<Alert, inflight, AlertSubscription, ewsVars, collectorVars, pureVars, busVars>>

PostResend(notificationId, now) ==
  /\ IF notificationId \notin 1..Len(Notification)
       THEN /\ lastOp' = [op |-> "resend", notificationId |-> notificationId,
                          status |-> 404]
            /\ UNCHANGED Notification
       ELSE LET notification == Notification[notificationId]
                resendData == [alertId |-> notification.alertId,
                               patientId |-> notification.patientId,
                               channel |-> notification.channel,
                               recipient |-> notification.recipient,
                               recipientName |-> notification.recipientName,
                               content |-> notification.content]
            IN IF notification.status # "FAILED" /\ notification.status # "PENDING"
                 THEN /\ lastOp' = [op |-> "resend", notificationId |-> notificationId,
                                    status |-> 400]
                      /\ UNCHANGED Notification
                 ELSE \E outcome \in [1..1 -> EmailOutcomes] :
                        /\ lastOp' = [op |-> "resend", notificationId |-> notificationId,
                                      status |-> IF outcome[1] = "save.error" THEN 500
                                                 ELSE 200,
                                      now |-> now, outcome |-> outcome]
                        /\ Notification' = sendNotifications(Notification, <<resendData>>,
                                                             outcome, now)
  /\ UNCHANGED <<Alert, inflight, AlertSubscription, ewsVars, collectorVars, pureVars, busVars>>

\* a request that has run up to its save(): findOne, checks and assignments.
\* A request the processor rejects answers at once and leaves nothing behind;
\* the others hold the document they loaded and changed until they save.
BeginRequest(op, alertId, userId, assigned) ==
  /\ IF assigned.error # "none"
       THEN /\ lastOp' = [op |-> op, alertId |-> alertId, userId |-> userId,
                          status |-> RouteStatus(assigned.error)]
            /\ UNCHANGED inflight
       ELSE /\ lastOp' = [op |-> op, alertId |-> alertId, userId |-> userId,
                          status |-> 0]
            /\ inflight' = inflight \cup
                 {[op |-> op, alertId |-> alertId, userId |-> userId,
                   valid |-> alertSchemaAccepts(assigned.alert),
                   update |-> UpdateOf(Alert[alertId], assigned.alert)]}
  /\ UNCHANGED <<Alert, AlertSubscription, Notification, ewsVars, collectorVars, pureVars, busVars>>

\* the save() of a request in flight, what escalateAlert sends after it, and
\* the answer
CompleteRequest(req, now) ==
  /\ IF req.valid
       THEN LET alert == ApplyUpdate(Alert[req.alertId], req.update)
                calls == IF req.op = "escalate"
                         THEN sendAlertNotifications(alert, escalationSubscriptions(alert))
                         ELSE <<>>
            IN \E outcome \in [1..Len(calls) -> EmailOutcomes] :
                 /\ Alert' = [Alert EXCEPT ![req.alertId] = ApplyUpdate(@, req.update)]
                 /\ Notification' = sendNotifications(Notification, calls, outcome, now)
                 /\ lastOp' = [op |-> req.op, alertId |-> req.alertId,
                               userId |-> req.userId, status |-> 200]
       ELSE /\ UNCHANGED <<Alert, Notification>>
            /\ lastOp' = [op |-> req.op, alertId |-> req.alertId,
                          userId |-> req.userId, status |-> 500]
  /\ inflight' = inflight \ {req}
  /\ UNCHANGED <<AlertSubscription, ewsVars, collectorVars, pureVars, busVars>>

----------------------------------------------------------------------------
(* Specification of the EWS scoring pipeline: commands served one at a time *)

InitEWSIdle ==
  /\ EWSScoreEvent = <<>>
  /\ EWSConsensus = <<>>
  /\ EWSReadModel = [p \in Patients |-> Null]
  /\ EWSReadModelRows = [p \in Patients |-> 0]
  /\ projecting = {}
  /\ channel = [open |-> TRUE, queue |-> <<>>, settled |-> <<>>]
  /\ appended = [p \in Patients |-> <<>>]
  /\ applications = [p \in Patients |-> <<>>]

InitEWS ==
  /\ InitEWSIdle
  /\ lastOp = [op |-> "init"]

InitCollectorIdle ==
  /\ SensorData = <<>>
  /\ ConsensusData = <<>>
  /\ router = "sensorData.js"

InitPureIdle ==
  /\ pin = Null
  /\ pout = Null

InitAlertIdle ==
  /\ Alert = [alertId \in AlertIds |-> Null]
  /\ inflight = {}
  /\ AlertSubscription = <<>>
  /\ Notification = <<>>

Init == InitEWS /\ InitCollectorIdle /\ InitPureIdle /\ InitAlertIdle

CalculateEWS ==
  /\ Len(EWSScoreEvent) < MaxEvents
  /\ \E command \in Commands : handleCalculateEWSCommand(command, "none")

Next == CalculateEWS

Spec == Init /\ [][Next]_vars

\* the same pipeline with one storage or network call of a command failing
CalculateEWSFaulty ==
  /\ Len(EWSScoreEvent) < MaxFaultyEvents
  /\ lastOp.op = "calculate-ews" => lastOp.status = 201
  /\ \E command \in FaultyCommands, fail \in FailurePoints :
       handleCalculateEWSCommand(command, fail)

NextFaults == CalculateEWSFaulty

SpecFaults == Init /\ [][NextFaults]_vars

----------------------------------------------------------------------------
(* The command routes of the EWS Service with request bodies that the        *)
(* banding table does not cover                                              *)

\* a respiratory rate of 8.5 and a heart rate of 90.5
BetweenBandsVitals == [NormalVitals EXCEPT !.respiratoryRate = 85, !.heartRate = 905]

\* no heartRate field
MissingVitals == [respiratoryRate |-> T(18), oxygenSaturation |-> T(96), temperature |-> 371,
                  systolicBP |-> T(125), consciousness |-> "Alert"]

UnknownConsciousnessVitals == [NormalVitals EXCEPT !.consciousness = "Confused"]

RequestBodies ==
  [patientId : {"P1"}, nodeId : Nodes, timestamp : {0},
   vitalSigns : {Vitals3, BetweenBandsVitals, MissingVitals, UnknownConsciousnessVitals}]

CommandRoute ==
  /\ Len(EWSScoreEvent) < MaxEvents
  /\ \E route \in {"/calculate-ews", "/batch-calculate-ews"}, body \in RequestBodies :
       PostCommand(route, body)

NextRoutes == CommandRoute

SpecRoutes == Init /\ [][NextRoutes]_vars

----------------------------------------------------------------------------
(* Specification of the Data Collector ingestion, for either routes file *)

Readings ==
  [patientId : {"P1"}, sensorType : {"heartRate"}, nodeId : Nodes, timestamp : Times,
   value : {72, 130}]
  \cup [patientId : {"P1"}, sensorType : {"heartRate"}, nodeId : {"node-3"},
        timestamp : {5000}, value : {72}]
  \cup [patientId : {"P2"}, sensorType : {"heartRate"}, nodeId : {"node-1"},
        timestamp : {5000}, value : {72}]

FaultyReadings ==
  [patientId : {"P1"}, sensorType : {"heartRate"}, nodeId : {"node-2"}, timestamp : {5000},
   value : {130}]

Batches ==
  {<<[patientId |-> "P1", sensorType |-> "heartRate", nodeId |-> "node-1",
      timestamp |-> 0, value |-> 72],
     [patientId |-> "P1", sensorType |-> "heartRate", nodeId |-> "node-2",
      timestamp |-> 5000, value |-> v]>> : v \in {72, 130}}

\* Date.now() while the requests are served
Clock == {60000}

InitCollector ==
  /\ SensorData = <<>>
  /\ ConsensusData = <<>>
  /\ router \in RouterFiles
  /\ lastOp = [op |-> "init"]
  /\ InitEWSIdle
  /\ InitPureIdle
  /\ InitAlertIdle

IngestReading ==
  /\ Len(SensorData) < MaxReadings
  /\ \E reading \in Readings, now \in Clock : PostSensor(reading, "none", now)

IngestReadingFaulty ==
  /\ Len(SensorData) < MaxReadings
  /\ \E reading \in FaultyReadings, fail \in CollectorFailurePoints \ {"none"}, now \in Clock :
       PostSensor(reading, fail, now)

IngestBatch ==
  /\ Len(SensorData) + 2 <= MaxReadings
  /\ \E readings \in Batches, now \in Clock : PostBatch(readings, "none", now)

NextCollector == IngestReading \/ IngestReadingFaulty \/ IngestBatch

SpecCollector == InitCollector /\ [][NextCollector]_vars

----------------------------------------------------------------------------
(* Sensor ingestion of part_003 for a patient whose other vital signs have   *)
(* reached consensus before: checkAndTriggerEWSCalculation                   *)

\* the sensor types other than heartRate, in the order their consensus was saved
PriorSensorTypes == <<"respRate", "spo2", "temperature", "bpSystolic", "consciousness">>

PriorValue(sensorType) ==
  CASE sensorType = "respRate"      -> 18
    [] sensorType = "spo2"          -> 96
    [] sensorType = "temperature"   -> 37
    [] sensorType = "bpSystolic"    -> 125
    [] sensorType = "consciousness" -> 0

\* Date.now() while the readings are ingested
TriggerClock == {600000}

\* consensus timestamps 10 minutes and a few seconds before TriggerClock
PriorTimestamp(age, k) == IF age = "fresh" THEN 590000 + k * 1000 ELSE k * 1000

\* the three readings from which part_003 reached a consensus on sensorType
PriorReadings(sensorType, timestamp) ==
  [i \in 1..3 |-> [nodeId |-> NodeName(i), value |-> PriorValue(sensorType),
                   timestamp |-> timestamp]]

\* the types of PriorSensorTypes[k..] that have a consensus, with their position
RECURSIVE PriorPresent(_, _)
PriorPresent(age, k) ==
  IF k > Len(PriorSensorTypes) THEN <<>>
  ELSE (IF age[PriorSensorTypes[k]] = "absent" THEN <<>> ELSE <<k>>) \o PriorPresent(age, k + 1)

\* the ConsensusData collection that ingestion of those readings left
PriorConsensusData(age) ==
  LET present == PriorPresent(age, 1)
  IN [i \in 1..Len(present) |->
        LET sensorType == PriorSensorTypes[present[i]]
            timestamp  == PriorTimestamp(age[sensorType], present[i])
        IN [consensusId        |-> i,
            patientId          |-> "P1",
            sensorType         |-> sensorType,
            readings           |-> PriorReadings(sensorType, timestamp),
            consensusValue     |-> Value(PriorValue(sensorType)),
            consensusTimestamp |-> timestamp,
            validConsensus     |-> TRUE,
            consensusMethod    |-> "majority"]]

\* the SensorData collection holding the readings of those consensus records
RECURSIVE PriorSensorData(_)
PriorSensorData(cstore) ==
  IF cstore = <<>> THEN <<>>
  ELSE [i \in 1..3 |-> [patientId  |-> Head(cstore).patientId,
                        sensorType |-> Head(cstore).sensorType,
                        nodeId     |-> Head(cstore).readings[i].nodeId,
                        timestamp  |-> Head(cstore).readings[i].timestamp,
                        value      |-> Head(cstore).readings[i].value]]
       \o PriorSensorData(Tail(cstore))

VitalReadings ==
  [patientId : {"P1"}, sensorType : {"heartRate"}, nodeId : {NodeName(i) : i \in 1..3},
   timestamp : {0, 595000}, value : {72}]

InitTrigger ==
  /\ \E age \in [Range(PriorSensorTypes) -> {"absent", "fresh", "stale"}] :
       /\ ConsensusData = PriorConsensusData(age)
       /\ SensorData = PriorSensorData(PriorConsensusData(age))
  /\ router = "part_003"
  /\ lastOp = [op |-> "init"]
  /\ InitEWSIdle
  /\ InitPureIdle
  /\ InitAlertIdle

IngestVital ==
  /\ Len(SelectSeq(SensorData, LAMBDA r : r.sensorType = "heartRate")) < MaxVitalReadings
  /\ \E reading \in VitalReadings, now \in TriggerClock : PostSensor(reading, "none", now)

NextTrigger == IngestVital

SpecTrigger == InitTrigger /\ [][NextTrigger]_vars

----------------------------------------------------------------------------
(* Specification of the read-model projector: updateReadModel driven with   *)
(* consensus records directly, including records delivered a second time    *)

\* NEWS2 total 5 (heart rate 115, consciousness Voice)
Vitals5 == [respiratoryRate |-> T(18), oxygenSaturation |-> T(96), temperature |-> 371,
            systolicBP |-> T(125), heartRate |-> T(115), consciousness |-> "Voice"]

NodeScore(nodeId, timestamp, vitalSigns) ==
  LET calc == calculateEWS(vitalSigns)
  IN [nodeId |-> nodeId, totalScore |-> calc.totalScore, timestamp |-> timestamp,
      vitalSigns |-> vitalSigns, scoreComponents |-> calc.scoreComponents,
      clinicalRisk |-> calc.clinicalRisk]

\* per-node scores as attemptConsensus collects them: a majority, an average
\* that no node holds, a disagreement, and a pair more than 5 s apart
ProjectorInputs ==
  UNION {
    {[patientId |-> "P1", scores |-> <<NodeScore("node-1", t, Vitals3), NodeScore("node-2", t, Vitals3)>>],
     [patientId |-> "P1", scores |-> <<NodeScore("node-1", t, Vitals3), NodeScore("node-2", t, Vitals5)>>],
     [patientId |-> "P1", scores |-> <<NodeScore("node-1", t, Vitals3), NodeScore("node-2", t, Vitals8)>>],
     [patientId |-> "P1", scores |-> <<NodeScore("node-1", t, Vitals8), NodeScore("node-2", t + 6000, Vitals3)>>]}
    : t \in {1000, 2000}}
  \cup {[patientId |-> p, scores |-> <<NodeScore("node-1", 1000, Vitals8), NodeScore("node-2", 1000, Vitals8)>>]
        : p \in Patients}

\* the k-th consensus of a routine run: both nodes agree once a second
RoutineInput(k) ==
  [patientId |-> "P1",
   scores |-> <<NodeScore("node-1", k * 1000, Vitals3), NodeScore("node-2", k * 1000, Vitals3)>>]

TotalApplied == Len(applications["P1"]) + Len(applications["P2"])

\* await updateReadModel(consensusData): findOne, build, save
Project(op, consensusData, fail) ==
  IF fail = "readModel.save" THEN
    /\ UNCHANGED <<EWSReadModel, EWSReadModelRows, projecting, appended, applications>>
    /\ lastOp' = [op |-> op, consensus |-> consensusData, projected |-> FALSE]
  ELSE
    /\ EWSReadModel' = [EWSReadModel EXCEPT ![consensusData.patientId] =
                          updateReadModel(@, consensusData)]
    /\ EWSReadModelRows' =
         IF EWSReadModel[consensusData.patientId] = Null
         THEN [EWSReadModelRows EXCEPT ![consensusData.patientId] = @ + 1]
         ELSE EWSReadModelRows
    /\ UNCHANGED projecting
    /\ appended' = [appended EXCEPT ![consensusData.patientId] =
                      Append(@, HistoryEntry(consensusData))]
    /\ applications' = [applications EXCEPT ![consensusData.patientId] =
                          Append(@, consensusData)]
    /\ lastOp' = [op |-> op, consensus |-> consensusData, projected |-> TRUE]

\* a newly persisted consensus is projected
ProjectConsensus ==
  /\ Len(EWSConsensus) < MaxApplied
  /\ TotalApplied < MaxApplied
  /\ \E input \in ProjectorInputs, fail \in {"none", "readModel.save"} :
       LET consensusData == NewEWSConsensus(Len(EWSConsensus) + 1, input.patientId, input.scores)
       IN /\ EWSConsensus' = Append(EWSConsensus, consensusData)
          /\ Project("project", consensusData, fail)
  /\ UNCHANGED <<EWSScoreEvent, collectorVars, pureVars, busVars, alertVars>>

\* a consensus that was projected before is delivered to the projector again
RedeliverConsensus ==
  /\ Len(EWSConsensus) <= MaxApplied
  /\ TotalApplied < MaxApplied
  /\ \E p \in Patients : \E i \in 1..Len(applications[p]) :
       Project("redeliver", applications[p][i], "none")
  /\ UNCHANGED <<EWSScoreEvent, EWSConsensus, collectorVars, pureVars, busVars, alertVars>>

\* a long routine run, which fills scoreHistory
ProjectRoutine ==
  /\ lastOp.op \in {"init", "routine"}
  /\ Len(EWSConsensus) < MaxRoutine
  /\ LET input == RoutineInput(Len(EWSConsensus) + 1)
         consensusData == NewEWSConsensus(Len(EWSConsensus) + 1, input.patientId, input.scores)
     IN /\ EWSConsensus' = Append(EWSConsensus, consensusData)
        /\ Project("routine", consensusData, "none")
  /\ UNCHANGED <<EWSScoreEvent, collectorVars, pureVars, busVars, alertVars>>

NextProjector == ProjectConsensus \/ RedeliverConsensus \/ ProjectRoutine

SpecProjector == Init /\ [][NextProjector]_vars

----------------------------------------------------------------------------
(* Specification of the read-model projector with overlapping applications:
   each updateReadModel call awaits its findOne and later its save, and the
   calls of other requests run in between *)

uniquePatientId_NoIndex(rows, patientId) == TRUE

\* ewsReadModelSchema declares patientId unique: the index rejects the insert
\* of a second document of a patient (E11000 duplicate key)
uniquePatientId(rows, patientId) == rows[patientId] = 0

\* readModel.save() of the document a call built from what its findOne
\* returned: a new document is inserted, a loaded one sends the paths it
\* modified and pushes its history entry onto the stored array
readModelSave(stored, rows, req) ==
  IF req.loaded = Null THEN
    IF uniquePatientId(rows, req.consensus.patientId)
      THEN [error |-> "none", inserted |-> TRUE, readModel |-> req.modified]
      ELSE [error |-> "E11000", inserted |-> FALSE, readModel |-> stored]
  ELSE
    LET pushed == Append(stored.scoreHistory, HistoryEntry(req.consensus))
    IN [error |-> "none", inserted |-> FALSE,
        readModel |-> [ApplyUpdate(stored, UpdateOf(req.loaded, req.modified)) EXCEPT
                         !.scoreHistory = IF Len(req.modified.scoreHistory) < Len(req.loaded.scoreHistory) + 1
                                          THEN req.modified.scoreHistory
                                          ELSE pushed]]

\* attemptConsensus saves the consensus, and updateReadModel runs up to the
\* result of its findOne
BeginProject ==
  /\ Len(EWSConsensus) < MaxApplied
  /\ Cardinality(projecting) < MaxInFlight
  /\ \E input \in ProjectorInputs :
       LET consensusData == NewEWSConsensus(Len(EWSConsensus) + 1, input.patientId, input.scores)
           loaded == EWSReadModel[input.patientId]
       IN /\ EWSConsensus' = Append(EWSConsensus, consensusData)
          /\ projecting' = projecting \cup
               {[consensus |-> consensusData, loaded |-> loaded,
                 modified |-> updateReadModel(loaded, consensusData)]}
          /\ lastOp' = [op |-> "project.findOne", consensus |-> consensusData,
                        projected |-> FALSE, error |-> "none"]
  /\ UNCHANGED <<EWSScoreEvent, EWSReadModel, EWSReadModelRows, appended, applications,
                 collectorVars, pureVars, busVars, alertVars>>

\* the save of one of the calls in flight completes
CompleteProject ==
  /\ \E req \in projecting :
       LET patientId == req.consensus.patientId
           r == readModelSave(EWSReadModel[patientId], EWSReadModelRows, req)
       IN /\ projecting' = projecting \ {req}
          /\ EWSReadModel' = [EWSReadModel EXCEPT ![patientId] =
                                IF r.inserted /\ @ # Null THEN @ ELSE r.readModel]
          /\ EWSReadModelRows' = [EWSReadModelRows EXCEPT ![patientId] =
                                    IF r.inserted THEN @ + 1 ELSE @]
          /\ appended' = IF r.error = "none"
                         THEN [appended EXCEPT ![patientId] = Append(@, HistoryEntry(req.consensus))]
                         ELSE appended
          /\ applications' = IF r.error = "none"
                             THEN [applications EXCEPT ![patientId] = Append(@, req.consensus)]
                             ELSE applications
          /\ lastOp' = [op |-> "project.save", consensus |-> req.consensus,
                        projected |-> r.error = "none", error |-> r.error]
  /\ UNCHANGED <<EWSScoreEvent, EWSConsensus, collectorVars, pureVars, busVars, alertVars>>

SpecProjectorConcurrent == Init /\ [][BeginProject \/ CompleteProject]_vars

----------------------------------------------------------------------------
(* Specification of the scoring pipeline for commands a few seconds apart:   *)
(* a node reports again while the other node's report lies in between        *)

CalculateEWSStaggered ==
  /\ Len(EWSScoreEvent) < MaxEvents
  /\ \E command \in [patientId : {"P1"}, nodeId : Nodes, timestamp : {0, 2000, 4000},
                     vitalSigns : {Vitals3, Vitals5}] :
       handleCalculateEWSCommand(command, "none")

SpecStaggered == Init /\ [][CalculateEWSStaggered]_vars

\* two nodes whose scores lie in every risk band, reporting together or more
\* than the timestamp threshold apart, each once for a timestamp
CalculateEWSMethods ==
  /\ Len(EWSScoreEvent) < MaxEvents
  /\ \E at \in {<<"node-1", 0>>, <<"node-2", 0>>, <<"node-2", 8000>>},
        vitalSigns \in {NormalVitals, Vitals4, Vitals5, Vitals8} :
       /\ \A i \in 1..Len(EWSScoreEvent) :
            <<EWSScoreEvent[i].nodeId, EWSScoreEvent[i].timestamp>> # at
       /\ handleCalculateEWSCommand([patientId |-> "P1", nodeId |-> at[1], timestamp |-> at[2],
                                  vitalSigns |-> vitalSigns], "none")

SpecMethods == Init /\ [][CalculateEWSMethods]_vars

----------------------------------------------------------------------------
(* Specification of the event bus subscription of the EWS Service: messages
   arrive on the subscriber's queue and the consume callback of
   subscribeToEvent settles each delivery *)

MessageContents == {"json", "malformed"}
HandlerOutcomes == {"resolves", "rejects"}

consumeCallback_NackDiscards(msg, handlerOutcome, open) ==
  LET parsed == msg.content = "json"
      handled == parsed /\ handlerOutcome = "resolves"
  IN [id |-> msg.id, parsed |-> parsed, handled |-> handled,
      ack |-> handled /\ open,
      nack |-> ~handled /\ open,
      requeue |-> FALSE]

\* the callback given to channel.consume: JSON.parse, await handler, ack; a
\* throw of any of them is caught and answered with nack(msg, false, true).
\* `open` tells whether the module's channel is still set when the callback
\* settles: the connection's error handler sets it to null, and then ack and
\* nack both throw and nothing is sent to the broker
consumeCallback(msg, handlerOutcome, open) ==
  LET parsed == msg.content = "json"
      handled == parsed /\ handlerOutcome = "resolves"
  IN [id |-> msg.id, parsed |-> parsed, handled |-> handled,
      ack |-> handled /\ open,
      nack |-> ~handled /\ open,
      requeue |-> ~handled /\ open]

\* the subscriber's queue after the broker received what the callback sent:
\* an acked or discarded delivery leaves it, a requeued one and one left
\* unsettled by a lost channel go back to where they were
brokerSettle(queue, delivery) ==
  IF delivery.ack \/ (delivery.nack /\ ~delivery.requeue)
    THEN Tail(queue)
    ELSE <<[Head(queue) EXCEPT !.redelivered = TRUE]>> \o Tail(queue)

\* a publisher's message is routed to the subscriber's queue
PublishMessage ==
  /\ \E content \in MessageContents :
       LET id == Len(channel.queue) + Cardinality({i \in 1..Len(channel.settled) :
                                                    channel.settled[i].ack}) + 1
       IN /\ id <= MaxMessages
          /\ channel' = [channel EXCEPT !.queue =
                           Append(@, [id |-> id, content |-> content, redelivered |-> FALSE])]
          /\ lastOp' = [op |-> "publish", id |-> id]
  /\ UNCHANGED <<ewsVars, collectorVars, pureVars, alertVars>>

\* the broker delivers the message at the head of the queue and the callback
\* runs to its end
DeliverMessage ==
  /\ channel.open
  /\ channel.queue # <<>>
  /\ Len(channel.settled) < MaxDeliveries
  /\ \E handlerOutcome \in HandlerOutcomes, open \in BOOLEAN :
       LET delivery == consumeCallback(Head(channel.queue), handlerOutcome, open)
       IN /\ channel' = [open |-> open,
                         queue |-> brokerSettle(channel.queue, delivery),
                         settled |-> Append(channel.settled, delivery)]
          /\ lastOp' = [op |-> "deliver", delivery |-> delivery,
                        handlerOutcome |-> handlerOutcome]
  /\ UNCHANGED <<ewsVars, collectorVars, pureVars, alertVars>>

SpecBus == Init /\ [][PublishMessage \/ DeliverMessage]_vars

----------------------------------------------------------------------------
(* Specification of the consensus functions on their own: an input is drawn  *)
(* and the function applied to it                                            *)


PureScores == {0, 3, 4, 5, 8}
PureValues == {0, 8, 10, 12, 13}
PureTimes == {0, 2500, 5000, 5001}

\* n per-node scores / readings, from distinct nodes, with the scores and
\* timestamps that f gives
ScoreList(n, f) ==
  [i \in 1..n |-> [nodeId |-> NodeName(i), totalScore |-> f[i][1], timestamp |-> f[i][2],
                   clinicalRisk |-> determineClinicalRisk(f[i][1])]]

ReadingList(n, f) ==
  [i \in 1..n |-> [nodeId |-> NodeName(i), value |-> f[i][1], timestamp |-> f[i][2]]]

\* vital signs with every field in a band of the table: one value of every band
\* of every vital combined, and each vital swept over its range while the
\* others are normal (numbers in tenths)
BandVitals ==
  [respiratoryRate  : {T(8), T(10), T(15), T(22), T(25)},
   oxygenSaturation : {T(91), T(92), T(94), T(96)},
   temperature      : {350, 355, 370, 385, 391},
   systolicBP       : {T(90), T(95), T(105), T(150), T(220)},
   heartRate        : {T(40), T(45), T(70), T(100), T(120), T(131)},
   consciousness    : {"Alert", "Voice"}]

SweptVitals ==
  {[NormalVitals EXCEPT !.respiratoryRate = T(v)] : v \in 0..40}
  \cup {[NormalVitals EXCEPT !.oxygenSaturation = T(v)] : v \in 80..100}
  \cup {[NormalVitals EXCEPT !.temperature = v] : v \in 340..400}
  \cup {[NormalVitals EXCEPT !.systolicBP = T(v)] : v \in 80..230}
  \cup {[NormalVitals EXCEPT !.heartRate = T(v)] : v \in 30..140}
  \cup {[NormalVitals EXCEPT !.consciousness = c] : c \in {"Alert", "Voice", "Pain", "Unresponsive"}}

InitPure ==
  /\ \/ \E n \in 2..MaxNodes :
          \/ \E f \in [1..n -> PureScores \X PureTimes] :
               pin = [fn |-> "ewsCalculator.determineConsensus", arg |-> ScoreList(n, f)]
          \/ \E f \in [1..n -> PureValues \X PureTimes] :
               pin = [fn |-> "consensusUtil.determineConsensus", arg |-> ReadingList(n, f)]
     \/ \E vitalSigns \in BandVitals \cup SweptVitals :
          pin = [fn |-> "ewsCalculator.calculateEWS", arg |-> vitalSigns]
  /\ pout = Null
  /\ lastOp = [op |-> "init"]
  /\ InitEWSIdle
  /\ InitCollectorIdle
  /\ InitAlertIdle

ApplyScoreConsensus ==
  /\ pin.fn = "ewsCalculator.determineConsensus"
  /\ pout = Null
  /\ pout' = ewsCalculator_determineConsensus(pin.arg)
  /\ UNCHANGED <<pin, lastOp, ewsVars, collectorVars, alertVars, busVars>>

ApplySensorConsensus ==
  /\ pin.fn = "consensusUtil.determineConsensus"
  /\ pout = Null
  /\ pout' = consensusUtil_determineConsensus(pin.arg)
  /\ UNCHANGED <<pin, lastOp, ewsVars, collectorVars, alertVars, busVars>>

ApplyCalculateEWS ==
  /\ pin.fn = "ewsCalculator.calculateEWS"
  /\ pout = Null
  /\ pout' = calculateEWS(pin.arg)
  /\ UNCHANGED <<pin, lastOp, ewsVars, collectorVars, alertVars, busVars>>

NextPure == ApplyScoreConsensus \/ ApplySensorConsensus \/ ApplyCalculateEWS

SpecPure == InitPure /\ [][NextPure]_vars

----------------------------------------------------------------------------
(* Specification of the Alert Engine: alerts created and then acknowledged,
   resolved and escalated, one request served at a time *)

\* request bodies of POST /api/alerts: every type and severity of the schema,
\* and one value of each outside it
AlertBodies ==
  [patientId : {"P1"},
   alertType : AlertTypes \cup {"UNKNOWN_TYPE"},
   alertSeverity : AlertSeverities \cup {"CRITICAL"}]

CreateAlert ==
  \E alertId \in AlertIds, body \in AlertBodies :
    /\ Alert[alertId] = Null
    /\ \E now \in AlertClock : PostAlert(body, alertId, now)
    /\ Len(Notification') <= MaxNotifications

AcknowledgeRoute ==
  \E alertId \in AlertIds, userId \in Users \cup {""}, now \in AlertClock :
    PutAcknowledge(alertId, userId, now)

ResolveRoute ==
  \E alertId \in AlertIds, userId \in Users \cup {""}, now \in AlertClock :
    PutResolve(alertId, userId, now)

EscalateRoute ==
  /\ \E alertId \in AlertIds, now \in AlertClock : PutEscalate(alertId, now)
  /\ Len(Notification') <= MaxNotifications

NextAlerts == CreateAlert \/ AcknowledgeRoute \/ ResolveRoute \/ EscalateRoute

SpecAlerts == Init /\ [][NextAlerts]_vars

----------------------------------------------------------------------------
(* Specification of the Alert Engine with concurrent requests: each request
   runs up to its save() in one step and saves in a later one, and the steps
   of the requests in flight interleave as the event loop allows *)

BeginAcknowledge ==
  /\ Cardinality(inflight) < MaxInFlight
  /\ \E alertId \in AlertIds, userId \in Users, now \in AlertClock :
       BeginRequest("acknowledge", alertId, userId,
                    acknowledgeAlert_assign(Alert[alertId], userId, now))

BeginResolve ==
  /\ Cardinality(inflight) < MaxInFlight
  /\ \E alertId \in AlertIds, userId \in Users, now \in AlertClock :
       BeginRequest("resolve", alertId, userId,
                    resolveAlert_assign(Alert[alertId], userId, now))

BeginEscalate ==
  /\ Cardinality(inflight) < MaxInFlight
  /\ \E alertId \in AlertIds :
       BeginRequest("escalate", alertId, NoUser,
                    escalateAlert_assign(Alert[alertId]))

CompleteSave ==
  /\ \E req \in inflight, now \in AlertClock : CompleteRequest(req, now)
  /\ Len(Notification') <= MaxNotifications

NextAlertsConcurrent ==
  \/ CreateAlert
  \/ BeginAcknowledge
  \/ BeginResolve
  \/ BeginEscalate
  \/ CompleteSave

SpecAlertsConcurrent == Init /\ [][NextAlertsConcurrent]_vars

----------------------------------------------------------------------------
(* Specification of the notification dispatcher: alerts are created and
   escalated while subscriptions exist, and notifications are resent *)

\* the AlertSubscription collection at the start: a subscription of each shape
\* the schema admits for the fields the queries read, then the ward's
\* department subscription with two channels, one of them disabled
InitNotify ==
  /\ InitEWS /\ InitCollectorIdle /\ InitPureIdle
  /\ Alert = [alertId \in AlertIds |-> Null]
  /\ inflight = {}
  /\ Notification = <<>>
  /\ \E subscriberType \in {"STAFF", "DEPARTMENT"}, patientId \in {"P1", "P2", "null"},
        alertTypes \in {{}, {"EWS_URGENT"}}, minSeverity \in AlertSeverities,
        active \in BOOLEAN :
       AlertSubscription =
         << [subscriptionId |-> "sub-1", subscriberType |-> subscriberType,
             subscriberId |-> "S1", patientId |-> patientId,
             alertTypes |-> alertTypes, minSeverity |-> minSeverity,
             channels |-> << [type |-> "EMAIL", contact |-> "s1@ward", enabled |-> TRUE] >>,
             active |-> active],
            [subscriptionId |-> "sub-2", subscriberType |-> "DEPARTMENT",
             subscriberId |-> "ICU", patientId |-> "null",
             alertTypes |-> {"EWS_CRITICAL"}, minSeverity |-> "HIGH",
             channels |-> << [type |-> "EMAIL", contact |-> "icu@ward", enabled |-> TRUE],
                             [type |-> "EMAIL", contact |-> "icu-old@ward", enabled |-> FALSE] >>,
             active |-> TRUE] >>

\* POST /api/alerts for the patient of the ward, with the types and severities
\* the subscriptions tell apart
RaiseAlert ==
  \E alertId \in AlertIds, now \in AlertClock,
     body \in [patientId : {"P1"}, alertType : {"EWS_CRITICAL", "EWS_URGENT"},
               alertSeverity : AlertSeverities] :
    /\ Alert[alertId] = Null
    /\ PostAlert(body, alertId, now)
    /\ Len(Notification') <= MaxNotifications

ResendRoute ==
  /\ \E notificationId \in 1..(MaxNotifications + 1), now \in AlertClock :
       PostResend(notificationId, now)
  /\ Len(Notification') <= MaxNotifications

SpecNotify == InitNotify /\ [][RaiseAlert \/ EscalateRoute \/ ResendRoute]_vars

----------------------------------------------------------------------------
(* Properties of the scoring pipeline (Spec) *)

\* C1: when a score event e is handled and no storage call fails, a consensus
\* record is persisted if and only if the stored EWS_CALCULATED events of e's
\* patient with timestamp in [e.timestamp - 30 s, e.timestamp + 5 s] come from
\* at least two distinct nodes; its nodeScores then hold exactly one entry per
\* such node, and that entry is the node's latest event in the window.
C1_ConsensusIffTwoNodesInWindow ==
  [][(lastOp'.op = "calculate-ews" /\ lastOp'.fail = "none") =>
       LET e == lastOp'.event
           window == {evt \in Range(EWSScoreEvent') :
                        /\ evt.patientId = e.patientId
                        /\ evt.eventType = "EWS_CALCULATED"
                        /\ e.timestamp - evt.timestamp <= 30000
                        /\ evt.timestamp - e.timestamp <= 5000}
           nodeIds == {evt.nodeId : evt \in window}
           latestOf(n) == SetMax({evt.timestamp : evt \in {x \in window : x.nodeId = n}})
       IN IF Cardinality(nodeIds) >= 2
          THEN /\ Len(EWSConsensus') = Len(EWSConsensus) + 1
               /\ SubSeq(EWSConsensus', 1, Len(EWSConsensus)) = EWSConsensus
               /\ LET c == EWSConsensus'[Len(EWSConsensus')]
                  IN /\ c.patientId = e.patientId
                     /\ Len(c.nodeScores) = Cardinality(nodeIds)
                     /\ \A n \in nodeIds :
                          \E i \in 1..Len(c.nodeScores) :
                            /\ c.nodeScores[i].nodeId = n
                            /\ c.nodeScores[i].timestamp = latestOf(n)
                            /\ \E evt \in window :
                                 /\ evt.nodeId = n
                                 /\ evt.timestamp = latestOf(n)
                                 /\ evt.totalScore = c.nodeScores[i].totalScore
                                 /\ evt.vitalSigns = c.nodeScores[i].vitalSigns
          ELSE EWSConsensus' = EWSConsensus
    ]_vars

\* a consensus was persisted for a window in which one node has an older event
\* with another score, and the patient has an event outside the window
C1_Witness ==
  /\ lastOp.op = "calculate-ews"
  /\ lastOp.fail = "none"
  /\ lastOp.consensus # Null
  /\ lastOp.consensus = EWSConsensus[Len(EWSConsensus)]
  /\ \E i, j \in 1..Len(EWSScoreEvent) :
       /\ EWSScoreEvent[i].patientId = lastOp.event.patientId
       /\ EWSScoreEvent[j].patientId = lastOp.event.patientId
       /\ EWSScoreEvent[i].nodeId = EWSScoreEvent[j].nodeId
       /\ EWSScoreEvent[i].timestamp < EWSScoreEvent[j].timestamp
       /\ EWSScoreEvent[i].totalScore # EWSScoreEvent[j].totalScore
       /\ lastOp.event.timestamp - EWSScoreEvent[i].timestamp <= 30000
       /\ EWSScoreEvent[j].timestamp - lastOp.event.timestamp <= 5000

----------------------------------------------------------------------------
(* Properties of the two consensus functions (SpecPure) *)

\* C2: for at least 2 node scores whose timestamps span at most 5 s and where
\* no totalScore is held by more than half of them, consensusScore is the
\* average of the scores rounded to the nearest integer (halves up), and the
\* result is valid with method average iff every score is within 1 of that
\* average, otherwise invalid with method none and still the average.
C2_ScoreAverageRule ==
  (pin.fn = "ewsCalculator.determineConsensus" /\ pout # Null) =>
    LET n      == Len(pin.arg)
        scores == [i \in 1..n |-> pin.arg[i].totalScore]
        times  == {pin.arg[i].timestamp : i \in 1..n}
        sum    == SumSeq(scores)
        noMajority ==
          \A v \in Range(scores) : 2 * Cardinality({i \in 1..n : scores[i] = v}) <= n
        avg    == CHOOSE a \in 0..sum : 2 * n * a <= 2 * sum + n /\ 2 * sum + n < 2 * n * (a + 1)
    IN (n >= 2 /\ SetMax(times) - SetMin(times) <= 5000 /\ noMajority) =>
         /\ pout.consensusScore = avg
         /\ IF \A i \in 1..n : Abs(scores[i] - avg) <= 1
            THEN pout.validConsensus /\ pout.consensusMethod = "average"
            ELSE ~pout.validConsensus /\ pout.consensusMethod = "none"

\* scores 3 and 8 within 5 s gave consensusScore 6, invalid, method none
C2_Witness ==
  /\ pin.fn = "ewsCalculator.determineConsensus"
  /\ pout # Null
  /\ Len(pin.arg) = 2
  /\ pin.arg[1].totalScore = 3
  /\ pin.arg[2].totalScore = 8
  /\ pin.arg[2].timestamp - pin.arg[1].timestamp = 5000
  /\ pout.consensusScore = 6
  /\ ~pout.validConsensus
  /\ pout.consensusMethod = "none"

\* C4: for at least 2 readings from distinct nodes whose timestamps span at
\* most 5 s and in which one value appears in more than half of the readings,
\* the result is valid with method majority, consensusValue is that value and
\* consensusTimestamp is the latest timestamp among the readings carrying it.
C4_MajorityClosure ==
  (pin.fn = "consensusUtil.determineConsensus" /\ pout # Null) =>
    LET n     == Len(pin.arg)
        times == {pin.arg[i].timestamp : i \in 1..n}
        holders(v) == {i \in 1..n : pin.arg[i].value = v}
    IN \A v \in {pin.arg[i].value : i \in 1..n} :
         (n >= 2 /\ SetMax(times) - SetMin(times) <= 5000 /\ 2 * Cardinality(holders(v)) > n) =>
           /\ pout.consensusMethod = "majority"
           /\ pout.validConsensus
           /\ pout.consensusValue.num = v * pout.consensusValue.den
           /\ pout.consensusTimestamp = SetMax({pin.arg[i].timestamp : i \in holders(v)})

\* a majority was found whose holders have different timestamps, the latest of
\* them not the first in the list, and a dissenting reading is later still
C4_Witness ==
  /\ pin.fn = "consensusUtil.determineConsensus"
  /\ pout # Null
  /\ pout.consensusMethod = "majority"
  /\ \E i, j, k \in 1..Len(pin.arg) :
       /\ i < j
       /\ pin.arg[i].value = pin.arg[j].value
       /\ pout.consensusValue = [num |-> pin.arg[i].value, den |-> 1]
       /\ pin.arg[i].timestamp < pin.arg[j].timestamp
       /\ pin.arg[k].value # pin.arg[i].value
       /\ pin.arg[k].timestamp > pin.arg[j].timestamp
       /\ pout.consensusTimestamp = pin.arg[j].timestamp

\* C5: for at least 2 readings spanning at most 5 s with no value held by more
\* than half of them, consensusValue is the mean of the values; the result is
\* valid with method average iff every value v has |v - avg| / avg <= 0.20, and
\* invalid with method none otherwise.
C5_AverageFallback ==
  (pin.fn = "consensusUtil.determineConsensus" /\ pout # Null) =>
    LET n      == Len(pin.arg)
        values == [i \in 1..n |-> pin.arg[i].value]
        times  == {pin.arg[i].timestamp : i \in 1..n}
        sum    == SumSeq(values)
        noMajority ==
          \A v \in Range(values) : 2 * Cardinality({i \in 1..n : values[i] = v}) <= n
    IN (n >= 2 /\ SetMax(times) - SetMin(times) <= 5000 /\ noMajority) =>
         /\ pout.consensusValue.num * n = sum * pout.consensusValue.den
         /\ IF sum > 0 /\ \A i \in 1..n : 100 * Abs(n * values[i] - sum) <= 20 * sum
            THEN pout.validConsensus /\ pout.consensusMethod = "average"
            ELSE ~pout.validConsensus /\ pout.consensusMethod = "none"

\* values 8 and 12 (each exactly 20 % from their mean 10) gave a valid average
C5_Witness ==
  /\ pin.fn = "consensusUtil.determineConsensus"
  /\ pout # Null
  /\ Len(pin.arg) = 2
  /\ pin.arg[1].value = 8
  /\ pin.arg[2].value = 12
  /\ pout.consensusMethod = "average"
  /\ pout.validConsensus
  /\ pout.consensusValue = [num |-> 20, den |-> 2]

\* C6: for at least 2 readings whose timestamps span more than 5 s, the result
\* carries the value and the timestamp of the reading with the greatest
\* timestamp, with method latest and valid, whatever the values are.
C6_LatestOutsideWindow ==
  (pin.fn = "consensusUtil.determineConsensus" /\ pout # Null) =>
    LET n     == Len(pin.arg)
        times == {pin.arg[i].timestamp : i \in 1..n}
    IN (n >= 2 /\ SetMax(times) - SetMin(times) > 5000) =>
         /\ pout.consensusMethod = "latest"
         /\ pout.validConsensus
         /\ pout.consensusTimestamp = SetMax(times)
         /\ \E i \in 1..n :
              /\ pin.arg[i].timestamp = SetMax(times)
              /\ pout.consensusValue = [num |-> pin.arg[i].value, den |-> 1]

\* the latest reading is not the first of the list, is the only one with its
\* timestamp, and its value is held by no other reading (two others agree)
C6_Witness ==
  /\ pin.fn = "consensusUtil.determineConsensus"
  /\ pout # Null
  /\ pout.consensusMethod = "latest"
  /\ Len(pin.arg) = 3
  /\ pin.arg[1].value = pin.arg[3].value
  /\ pin.arg[2].value # pin.arg[1].value
  /\ pin.arg[2].timestamp > pin.arg[1].timestamp
  /\ pin.arg[2].timestamp > pin.arg[3].timestamp
  /\ pout.consensusValue = [num |-> pin.arg[2].value, den |-> 1]
  /\ pout.consensusTimestamp = pin.arg[2].timestamp

----------------------------------------------------------------------------
(* Properties of sensor ingestion (SpecCollector) *)

\* C3: when a reading r is ingested and no storage call fails, a sensor
\* consensus for (r.patientId, r.sensorType) is persisted whenever the stored
\* readings of that pair with timestamp in [r.timestamp - 30 s,
\* r.timestamp + 5 s] come from at least 2 distinct nodes, and none is persisted
\* for fewer; its readings are exactly the latest reading per node in the window.
C3_SensorConsensusIffTwoNodesInWindow ==
  [][(lastOp'.op = "sensor" /\ lastOp'.results[1].fail = "none") =>
       LET r == lastOp'.results[1].reading
           window == {x \in Range(SensorData') :
                        /\ x.patientId = r.patientId
                        /\ x.sensorType = r.sensorType
                        /\ r.timestamp - x.timestamp <= 30000
                        /\ x.timestamp - r.timestamp <= 5000}
           nodeIds == {x.nodeId : x \in window}
           latestOf(n) == SetMax({x.timestamp : x \in {y \in window : y.nodeId = n}})
       IN IF Cardinality(nodeIds) >= 2
          THEN /\ Len(ConsensusData') = Len(ConsensusData) + 1
               /\ LET c == ConsensusData'[Len(ConsensusData')]
                  IN /\ c.patientId = r.patientId
                     /\ c.sensorType = r.sensorType
                     /\ Len(c.readings) = Cardinality(nodeIds)
                     /\ \A n \in nodeIds :
                          \E i \in 1..Len(c.readings) :
                            /\ c.readings[i].nodeId = n
                            /\ c.readings[i].timestamp = latestOf(n)
          ELSE ConsensusData' = ConsensusData
    ]_vars

----------------------------------------------------------------------------
(* Properties of the read-model projector (SpecProjector, Spec) *)

\* C7: after updateReadModel has applied a score consensus C, valid or not, a
\* read model for C.patientId exists with currentScore = C.consensusScore,
\* clinicalRisk = C.clinicalRisk and lastUpdated >= C.consensusTimestamp.
C7_ReadModelReflectsAppliedConsensus ==
  (lastOp.op \in {"project", "redeliver", "routine"} /\ lastOp.projected) =>
    LET C == lastOp.consensus
        readModel == EWSReadModel[C.patientId]
    IN /\ readModel # Null
       /\ readModel.currentScore = C.consensusScore
       /\ readModel.clinicalRisk = C.clinicalRisk
       /\ readModel.lastUpdated >= C.consensusTimestamp

\* an invalid consensus was applied to an existing read model that held
\* another score and another risk
C7_Witness ==
  /\ lastOp.op = "project"
  /\ lastOp.projected
  /\ ~lastOp.consensus.validConsensus
  /\ LET p == lastOp.consensus.patientId
         n == Len(applications[p])
     IN /\ n >= 2
        /\ applications[p][n] = lastOp.consensus
        /\ applications[p][n - 1].consensusScore # lastOp.consensus.consensusScore
        /\ applications[p][n - 1].clinicalRisk # lastOp.consensus.clinicalRisk
        /\ EWSReadModel[p].currentScore = lastOp.consensus.consensusScore

C9_ReapplyingLeavesReadModelUnchanged ==
  [][(lastOp'.op = "redeliver" /\ lastOp'.projected) => EWSReadModel' = EWSReadModel]_vars

\* C10: scoreHistory has at most 100 entries and is the last (up to) 100
\* entries appended for the patient, in application order.
C10_HistoryIsLastHundredAppended ==
  \A p \in Patients :
    EWSReadModel[p] # Null =>
      LET n == Len(appended[p])
          history == EWSReadModel[p].scoreHistory
      IN /\ Len(history) <= 100
         /\ Len(history) = Min(n, 100)
         /\ \A i \in 1..Len(history) : history[i] = appended[p][n - Len(history) + i]

\* more than 100 entries were appended and the oldest was dropped
C10_Witness ==
  /\ Len(appended["P1"]) > 100
  /\ EWSReadModel["P1"] # Null
  /\ Len(EWSReadModel["P1"].scoreHistory) = 100
  /\ EWSReadModel["P1"].scoreHistory[1] = appended["P1"][Len(appended["P1"]) - 99]
  /\ EWSReadModel["P1"].scoreHistory[1] # appended["P1"][1]

C12_AlertClassificationTotal ==
  (lastOp.op = "calculate-ews" /\ lastOp.fail = "none" /\ lastOp.consensus # Null) =>
    LET C == lastOp.consensus
        sent(type, severity) ==
          /\ lastOp.alert # Null
          /\ lastOp.alert.patientId = C.patientId
          /\ lastOp.alert.alertType = type
          /\ lastOp.alert.alertSeverity = severity
    IN IF ~C.validConsensus THEN sent("EWS_DATA_INCONSISTENCY", "MEDIUM")
       ELSE IF C.consensusScore >= 7 THEN sent("EWS_CRITICAL", "HIGH")
       ELSE IF C.consensusScore >= 5 THEN sent("EWS_URGENT", "MEDIUM")
       ELSE IF C.consensusScore >= 3 THEN sent("EWS_ELEVATED", "LOW")
       ELSE lastOp.alert = Null

----------------------------------------------------------------------------
(* Properties of the EWS trigger of the Data Collector (SpecTrigger) *)

\* C13: checkAndTriggerEWSCalculation requests a score for patient p if and
\* only if, for each of the six vitals, p has a valid sensor consensus of the
\* corresponding sensor type whose consensusTimestamp is at most 5 minutes old.
C13_ScoringIffSixFreshVitals ==
  (lastOp.op = "sensor" /\ lastOp.results[1].fail = "none" /\ lastOp.results[1].checked) =>
    LET p == lastOp.results[1].reading.patientId
        fresh(sensorType) ==
          \E d \in Range(ConsensusData) :
            /\ d.patientId = p
            /\ d.sensorType = sensorType
            /\ d.validConsensus
            /\ lastOp.now - d.consensusTimestamp <= 5 * 60 * 1000
    IN (lastOp.results[1].ewsRequest # Null) <=>
         \A sensorType \in {"respRate", "spo2", "temperature", "bpSystolic", "heartRate",
                            "consciousness"} : fresh(sensorType)

----------------------------------------------------------------------------
(* Properties of the NEWS2 scorer (SpecPure) *)

\* C14: for integer respiratoryRate, oxygenSaturation, systolicBP and heartRate
\* and temperatures in tenths of a degree, calculateEWS gives every component
\* the score of the band of the table that holds the value, every such value
\* lies in a band, and consciousness scores 0 for Alert and 3 for Voice, Pain
\* and Unresponsive.
C14_BandingTableExact ==
  (pin.fn = "ewsCalculator.calculateEWS" /\ pout # Null) =>
    LET lowest  == -1000000
        highest == 1000000
        \* <<from, to, score>>, in tenths
        table ==
          [respiratoryRate  |-> {<<lowest, 80, 3>>, <<90, 110, 1>>, <<120, 200, 0>>,
                                 <<210, 240, 2>>, <<250, highest, 3>>},
           oxygenSaturation |-> {<<lowest, 910, 3>>, <<920, 930, 2>>, <<940, 950, 1>>,
                                 <<960, highest, 0>>},
           temperature      |-> {<<lowest, 350, 3>>, <<351, 360, 1>>, <<361, 380, 0>>,
                                 <<381, 390, 1>>, <<391, highest, 2>>},
           systolicBP       |-> {<<lowest, 900, 3>>, <<910, 1000, 2>>, <<1010, 1100, 1>>,
                                 <<1110, 2190, 0>>, <<2200, highest, 3>>},
           heartRate        |-> {<<lowest, 400, 3>>, <<410, 500, 1>>, <<510, 900, 0>>,
                                 <<910, 1100, 1>>, <<1110, 1300, 2>>, <<1310, highest, 3>>}]
    IN /\ \A vital \in DOMAIN table :
            \E band \in table[vital] :
              /\ band[1] <= pin.arg[vital]
              /\ pin.arg[vital] <= band[2]
              /\ pout.scoreComponents[vital] = band[3]
       /\ pout.scoreComponents.consciousness =
            (IF pin.arg.consciousness = "Alert" THEN 0 ELSE 3)

\* a heart rate of 91, the first value above the 51-90 band, scored 1
C14_Witness ==
  /\ pin.fn = "ewsCalculator.calculateEWS"
  /\ pout # Null
  /\ pin.arg.heartRate = 910
  /\ pout.scoreComponents.heartRate = 1

\* C15: totalScore is the sum of the six component scores and lies in 0..20;
\* clinicalRisk is Low iff totalScore = 0, Low-Medium iff 1-4, Medium iff 5-6
\* and High iff totalScore >= 7.
C15_TotalAndRisk ==
  (pin.fn = "ewsCalculator.calculateEWS" /\ pout # Null) =>
    LET c == pout.scoreComponents
    IN /\ DOMAIN c = {"respiratoryRate", "oxygenSaturation", "temperature", "systolicBP",
                      "heartRate", "consciousness"}
       /\ pout.totalScore = c.respiratoryRate + c.oxygenSaturation + c.temperature
                            + c.systolicBP + c.heartRate + c.consciousness
       /\ pout.totalScore \in 0..20
       /\ (pout.clinicalRisk = "Low") <=> (pout.totalScore = 0)
       /\ (pout.clinicalRisk = "Low-Medium") <=> (pout.totalScore \in 1..4)
       /\ (pout.clinicalRisk = "Medium") <=> (pout.totalScore \in 5..6)
       /\ (pout.clinicalRisk = "High") <=> (pout.totalScore >= 7)
       /\ pout.clinicalRisk \in {"Low", "Low-Medium", "Medium", "High"}

\* a total of 4 was rated Low-Medium from several non-zero components
C15_Witness ==
  /\ pin.fn = "ewsCalculator.calculateEWS"
  /\ pout # Null
  /\ pout.totalScore = 4
  /\ pout.clinicalRisk = "Low-Medium"
  /\ pout.scoreComponents.respiratoryRate > 0
  /\ pout.scoreComponents.heartRate > 0

----------------------------------------------------------------------------
(* Properties of the command routes (SpecRoutes) *)

\* C16: a calculate-ews request with a vital value that falls in no band of the
\* table (between two adjacent bands, missing, or an unrecognised consciousness
\* value) ends in an error, and no score event is stored for it.
C16_OutOfBandRejected ==
  lastOp.op = "calculate-ews" =>
    LET vitalSigns == lastOp.command.vitalSigns
        lowest  == -1000000
        highest == 1000000
        table ==
          [respiratoryRate  |-> {<<lowest, 80>>, <<90, 110>>, <<120, 200>>, <<210, 240>>,
                                 <<250, highest>>},
           oxygenSaturation |-> {<<lowest, 910>>, <<920, 930>>, <<940, 950>>, <<960, highest>>},
           temperature      |-> {<<lowest, 350>>, <<351, 360>>, <<361, 380>>, <<381, 390>>,
                                 <<391, highest>>},
           systolicBP       |-> {<<lowest, 900>>, <<910, 1000>>, <<1010, 1100>>,
                                 <<1110, 2190>>, <<2200, highest>>},
           heartRate        |-> {<<lowest, 400>>, <<410, 500>>, <<510, 900>>, <<910, 1100>>,
                                 <<1110, 1300>>, <<1310, highest>>}]
        inBand(vital) ==
          /\ vital \in DOMAIN vitalSigns
          /\ \E band \in table[vital] :
               band[1] <= vitalSigns[vital] /\ vitalSigns[vital] <= band[2]
        covered ==
          /\ \A vital \in DOMAIN table : inBand(vital)
          /\ "consciousness" \in DOMAIN vitalSigns
          /\ vitalSigns.consciousness \in {"Alert", "Voice", "Pain", "Unresponsive"}
    IN ~covered =>
         /\ lastOp.status \in {400, 500}
         /\ lastOp.event = Null
         /\ \A i \in 1..Len(EWSScoreEvent) : EWSScoreEvent[i].vitalSigns # vitalSigns

----------------------------------------------------------------------------
(* Properties of the alert lifecycle (SpecAlerts, SpecAlertsConcurrent) *)

\* C17: an acknowledge request on a stored alert succeeds exactly when the
\* alert's status is NEW or ESCALATED, and then stores status ACKNOWLEDGED with
\* acknowledgedBy and acknowledgedAt and changes nothing else; when the status
\* is ACKNOWLEDGED or RESOLVED the request is answered with an error and the
\* stored alert is unchanged.
C17_AcknowledgeOnlyFromNewOrEscalated ==
  [][(lastOp'.op = "acknowledge" /\ lastOp'.status # 400
        /\ Alert[lastOp'.alertId] # Null) =>
       LET before == Alert[lastOp'.alertId]
           after == Alert'[lastOp'.alertId]
       IN IF before.status \in {"NEW", "ESCALATED"}
            THEN /\ lastOp'.status = 200
                 /\ after = [before EXCEPT !.status = "ACKNOWLEDGED",
                                           !.acknowledgedBy = lastOp'.userId,
                                           !.acknowledgedAt = lastOp'.now]
            ELSE /\ lastOp'.status = 500
                 /\ after = before]_vars

C17_Witness ==
  /\ lastOp.op = "acknowledge"
  /\ lastOp.status = 500
  /\ lastOp.before # Null
  /\ lastOp.before.status = "ACKNOWLEDGED"
  /\ lastOp.before.acknowledgedBy # lastOp.userId
  /\ Alert[lastOp.alertId] = lastOp.before

\* C18: RESOLVED is terminal under every interleaving of concurrent requests:
\* once the stored status of an alert is RESOLVED, no step changes its status
\* or its priority, and a request that finds it RESOLVED is rejected.
C18_ResolvedIsTerminal ==
  [][\A alertId \in AlertIds :
       (Alert[alertId] # Null /\ Alert[alertId].status = "RESOLVED") =>
         /\ Alert'[alertId].status = "RESOLVED"
         /\ Alert'[alertId].priority = Alert[alertId].priority
         /\ inflight' \subseteq inflight]_vars

\* C19 (as stated): over any sequence of acknowledge, resolve and escalate
\* requests, every change of a stored alert's status is one of
\* NEW->ACKNOWLEDGED, NEW->ESCALATED, ESCALATED->ACKNOWLEDGED and
\* ACKNOWLEDGED->RESOLVED.
C19_OnlyArcTransitions ==
  [][\A alertId \in AlertIds :
       (Alert[alertId] # Null /\ Alert'[alertId].status # Alert[alertId].status) =>
         <<Alert[alertId].status, Alert'[alertId].status>> \in
           {<<"NEW", "ACKNOWLEDGED">>, <<"NEW", "ESCALATED">>,
            <<"ESCALATED", "ACKNOWLEDGED">>, <<"ACKNOWLEDGED", "RESOLVED">>}]_vars

\* C19 (amended): over any sequence of acknowledge, resolve and escalate
\* requests served one at a time, every change of a stored alert's status is
\* an acknowledge from NEW or ESCALATED, a resolve from any status but
\* RESOLVED, or an escalate from NEW or ACKNOWLEDGED; no status is ever left
\* for NEW and RESOLVED is never left.
C19_OnlyGuardedTransitions ==
  [][\A alertId \in AlertIds :
       (Alert[alertId] # Null /\ Alert'[alertId].status # Alert[alertId].status) =>
         /\ <<Alert[alertId].status, Alert'[alertId].status>> \in
              {<<"NEW", "ACKNOWLEDGED">>, <<"ESCALATED", "ACKNOWLEDGED">>,
               <<"NEW", "RESOLVED">>, <<"ACKNOWLEDGED", "RESOLVED">>,
               <<"ESCALATED", "RESOLVED">>,
               <<"NEW", "ESCALATED">>, <<"ACKNOWLEDGED", "ESCALATED">>}
         /\ lastOp'.op = CASE Alert'[alertId].status = "ACKNOWLEDGED" -> "acknowledge"
                           [] Alert'[alertId].status = "RESOLVED" -> "resolve"
                           [] OTHER -> "escalate"]_vars

C19_Witness ==
  /\ lastOp.op = "resolve"
  /\ lastOp.status = 200
  /\ lastOp.before.status = "NEW"
  /\ Alert[lastOp.alertId].status = "RESOLVED"

\* C20: every stored alert has 1 <= priority <= 100, whatever severity and
\* type it was created with and however often it was escalated.
C20_PriorityWithinBounds ==
  \A alertId \in AlertIds :
    Alert[alertId] # Null =>
      /\ Alert[alertId].priority >= 1
      /\ Alert[alertId].priority <= 100

C20_Witness ==
  /\ lastOp.op = "escalate"
  /\ lastOp.status = 200
  /\ lastOp.before.priority = 95
  /\ lastOp.before.status = "ESCALATED"
  /\ Alert[lastOp.alertId].priority = 100

\* C21: an alert that POST /api/alerts stores has status NEW and priority
\* clamp(base + bonus, 1, 100), base 80/50/30 for severity HIGH/MEDIUM/LOW and
\* bonus 20/15/10/18/8 for type EWS_CRITICAL/EWS_URGENT/EWS_ELEVATED/
\* SENSOR_CRITICAL/SENSOR_WARNING and 0 for every other type.
C21_NewAlertStatusAndPriority ==
  [][(lastOp'.op = "create-alert" /\ lastOp'.status = 201) =>
       LET stored == Alert'[lastOp'.alertId]
           base == CASE stored.alertSeverity = "HIGH" -> 80
                     [] stored.alertSeverity = "MEDIUM" -> 50
                     [] stored.alertSeverity = "LOW" -> 30
                     [] OTHER -> 10
           bonus == CASE stored.alertType = "EWS_CRITICAL" -> 20
                      [] stored.alertType = "EWS_URGENT" -> 15
                      [] stored.alertType = "EWS_ELEVATED" -> 10
                      [] stored.alertType = "SENSOR_CRITICAL" -> 18
                      [] stored.alertType = "SENSOR_WARNING" -> 8
                      [] OTHER -> 0
           sum == base + bonus
       IN /\ stored.status = "NEW"
          /\ stored.alertType = lastOp'.body.alertType
          /\ stored.alertSeverity = lastOp'.body.alertSeverity
          /\ stored.priority = (IF sum > 100 THEN 100 ELSE IF sum < 1 THEN 1 ELSE sum)]_vars

C21_Witness ==
  /\ lastOp.op = "create-alert"
  /\ lastOp.status = 201
  /\ lastOp.body.alertType = "EWS_URGENT"
  /\ lastOp.body.alertSeverity = "MEDIUM"
  /\ Alert[lastOp.alertId].status = "NEW"
  /\ Alert[lastOp.alertId].priority = 65

----------------------------------------------------------------------------
(* Properties of the notification dispatcher (SpecNotify) *)

\* C22: when an alert is created, the subscriptions that are sent its
\* notifications are exactly those that are active, whose patientId is null or
\* the alert's, whose minSeverity satisfies the severity rule (HIGH alert: any;
\* MEDIUM alert: MEDIUM or LOW; LOW alert: LOW), and whose alertTypes is empty
\* or contains the alert's type.
C22_MatchIffAllFourConditions ==
  [][(lastOp'.op = "create-alert" /\ lastOp'.status = 201) =>
       LET alert == Alert'[lastOp'.alertId]
           notified == {Notification'[i].recipientName :
                          i \in (Len(Notification) + 1)..Len(Notification')}
           matching == {AlertSubscription[i] : i \in
                          {j \in 1..Len(AlertSubscription) :
                             /\ AlertSubscription[j].active
                             /\ AlertSubscription[j].patientId \in {"null", alert.patientId}
                             /\ \/ alert.alertSeverity = "HIGH"
                                \/ /\ alert.alertSeverity = "MEDIUM"
                                   /\ AlertSubscription[j].minSeverity \in {"MEDIUM", "LOW"}
                                \/ /\ alert.alertSeverity = "LOW"
                                   /\ AlertSubscription[j].minSeverity = "LOW"
                             /\ \/ AlertSubscription[j].alertTypes = {}
                                \/ alert.alertType \in AlertSubscription[j].alertTypes}}
       IN notified = {<<subscription.subscriberType, subscription.subscriberId>> :
                        subscription \in matching}]_vars

\* C23: an escalate request on a stored alert that is not RESOLVED succeeds,
\* stores status ESCALATED and priority min(100, previous priority + 10), and
\* creates notifications of that alert for the enabled EMAIL channels of the
\* active DEPARTMENT subscriptions with minSeverity HIGH whose patientId is the
\* alert's or null, and for no other subscription.
C23_EscalateRaisesAndNotifiesDepartments ==
  [][(/\ lastOp'.op = "escalate"
      /\ lastOp'.before # Null
      /\ lastOp'.before.status # "RESOLVED") =>
       LET before == lastOp'.before
           after == Alert'[lastOp'.alertId]
           fresh == {Notification'[i] :
                       i \in (Len(Notification) + 1)..Len(Notification')}
           departments == {AlertSubscription[i] : i \in
                             {j \in 1..Len(AlertSubscription) :
                                /\ AlertSubscription[j].active
                                /\ AlertSubscription[j].subscriberType = "DEPARTMENT"
                                /\ AlertSubscription[j].minSeverity = "HIGH"
                                /\ AlertSubscription[j].patientId \in
                                     {"null", before.patientId}}}
       IN /\ lastOp'.status = 200
          /\ after.status = "ESCALATED"
          /\ after.priority = (IF before.priority + 10 > 100 THEN 100
                               ELSE before.priority + 10)
          /\ \A n \in fresh : n.alertId = lastOp'.alertId
          /\ {n.recipient : n \in fresh} =
               UNION {{subscription.channels[i].contact : i \in
                         {k \in DOMAIN subscription.channels :
                            /\ subscription.channels[k].enabled
                            /\ subscription.channels[k].type = "EMAIL"}} :
                      subscription \in departments}]_vars

C23_Witness ==
  /\ lastOp.op = "escalate"
  /\ lastOp.status = 200
  /\ lastOp.before.status = "ACKNOWLEDGED" \/ lastOp.before.status = "NEW"
  /\ Alert[lastOp.alertId].status = "ESCALATED"
  /\ Alert[lastOp.alertId].priority = lastOp.before.priority + 10
  /\ AlertSubscription[1].active
  /\ AlertSubscription[1].subscriberType = "STAFF"
  /\ AlertSubscription[1].minSeverity = "HIGH"
  /\ AlertSubscription[1].patientId = "P1"
  /\ Alert[lastOp.alertId].alertSeverity = "MEDIUM"
  /\ Len(Notification) = 1
  /\ Notification[1].recipient = "icu@ward"
  /\ Notification[1].alertId = lastOp.alertId

C25_ResendOnlyFromFailedOrPending ==
  [][lastOp'.op = "resend" =>
       LET id == lastOp'.notificationId
       IN IF id \notin 1..Len(Notification)
            THEN lastOp'.status = 404 /\ Notification' = Notification
          ELSE IF Notification[id].status \in {"SENT", "DELIVERED"}
            THEN lastOp'.status = 400 /\ Notification' = Notification
          ELSE /\ Notification[id].status \in {"FAILED", "PENDING"}
               /\ lastOp'.status \notin {400, 404}]_vars

C25_Witness ==
  /\ lastOp.op = "resend"
  /\ lastOp.status = 400
  /\ Notification[lastOp.notificationId].status = "SENT"

\* C26: an accepted resend leaves the number of Notification records
\* unchanged and stores the outcome of the new attempt (SENT or FAILED) as the
\* status of the record it was asked to resend, with the same content.
C26_ResendUpdatesInPlace ==
  [][(lastOp'.op = "resend" /\ lastOp'.status = 200) =>
       LET id == lastOp'.notificationId
       IN /\ Len(Notification') = Len(Notification)
          /\ Notification'[id].content = Notification[id].content
          /\ Notification'[id].status =
               (IF lastOp'.outcome[1] = "sent" THEN "SENT" ELSE "FAILED")]_vars

----------------------------------------------------------------------------
(* Properties of sensor ingestion and its consensus records (SpecCollector,
   SpecTrigger, SpecPure, Spec) *)

\* C27: when routes/sensorData.js ingests a reading and no call fails, and the
\* latest readings per node of its (patient, sensorType) in the window come
\* from at least 2 nodes, span at most 5 s, have no majority value and hold a
\* value more than 20% away from their mean, then a consensus record with
\* validConsensus false, method none and the mean as its value is persisted
\* and a DATA_INCONSISTENCY alert of severity MEDIUM is sent for it.
C27_InvalidSensorConsensusPersistedAndAlerted ==
  [][(/\ lastOp'.op = "sensor"
      /\ lastOp'.results[1].fail = "none"
      /\ router = "sensorData.js") =>
       LET r == lastOp'.results[1].reading
           window == {x \in Range(SensorData') :
                        /\ x.patientId = r.patientId
                        /\ x.sensorType = r.sensorType
                        /\ r.timestamp - x.timestamp <= 30000
                        /\ x.timestamp - r.timestamp <= 5000}
           nodeIds == {x.nodeId : x \in window}
           latestAt(n) == SetMax({x.timestamp : x \in {y \in window : y.nodeId = n}})
           times == {latestAt(n) : n \in nodeIds}
           \* the values of the latest readings, one per node when a node's
           \* latest timestamp holds one value
           valuesOf(n) == {x.value : x \in {y \in window : y.nodeId = n
                                                        /\ y.timestamp = latestAt(n)}}
           unambiguous == \A n \in nodeIds : Cardinality(valuesOf(n)) = 1
           valueOf(n) == CHOOSE v \in valuesOf(n) : TRUE
           count == Cardinality(nodeIds)
           RECURSIVE total(_)
           total(S) == IF S = {} THEN 0
                       ELSE LET n == CHOOSE k \in S : TRUE
                            IN valueOf(n) + total(S \ {n})
           sum == total(nodeIds)
           noMajority == \A v \in {valueOf(n) : n \in nodeIds} :
                           2 * Cardinality({n \in nodeIds : valueOf(n) = v}) <= count
           deviates == \E n \in nodeIds :
                         LET d == count * valueOf(n) - sum
                         IN 5 * (IF d < 0 THEN -d ELSE d) > sum
       IN (/\ count >= 2
           /\ unambiguous
           /\ SetMax(times) - SetMin(times) <= 5000
           /\ noMajority
           /\ deviates) =>
            /\ Len(ConsensusData') = Len(ConsensusData) + 1
            /\ LET c == ConsensusData'[Len(ConsensusData')]
               IN /\ c.validConsensus = FALSE
                  /\ c.consensusMethod = "none"
                  /\ c.consensusValue.num * count = sum * c.consensusValue.den
            /\ lastOp'.results[1].alert # Null
            /\ lastOp'.results[1].alert.alertType = "DATA_INCONSISTENCY"
            /\ lastOp'.results[1].alert.alertSeverity = "MEDIUM"]_vars

C29_ValidConsensusAlwaysChecked ==
  [][(/\ lastOp'.op = "sensor"
      /\ router = "part_003"
      /\ lastOp'.results[1].persisted
      /\ lastOp'.results[1].consensus.validConsensus) =>
       lastOp'.results[1].checked]_vars

\* C30: every value of the vital-sign vector that part_003 sends to the scorer
\* is the value of a valid sensor consensus of the patient and of the sensor
\* type of that vital (an integer 0..3 read on the AVPU scale for
\* consciousness), and no valid consensus of that type is more recent.
C30_OnlyValidConsensusValuesScored ==
  (lastOp.op = "sensor" /\ lastOp.results[1].ewsRequest # Null) =>
    LET request == lastOp.results[1].ewsRequest
        sensorTypeOf == [respiratoryRate |-> "respRate", oxygenSaturation |-> "spo2",
                         temperature |-> "temperature", systolicBP |-> "bpSystolic",
                         heartRate |-> "heartRate", consciousness |-> "consciousness"]
        valid(name) == {d \in Range(ConsensusData) :
                          /\ d.patientId = request.patientId
                          /\ d.sensorType = sensorTypeOf[name]
                          /\ d.validConsensus}
    IN \A name \in DOMAIN request.vitalSigns :
         \E d \in valid(name) :
           /\ \A e \in valid(name) : e.consensusTimestamp <= d.consensusTimestamp
           /\ IF name = "consciousness"
                THEN \E k \in 0..3 :
                       /\ d.consensusValue.num = k * d.consensusValue.den
                       /\ request.vitalSigns[name] =
                            <<"Alert", "Voice", "Pain", "Unresponsive">>[k + 1]
                ELSE request.vitalSigns[name] = d.consensusValue

----------------------------------------------------------------------------
(* Further properties of the read-model projector and of the scoring pipeline
   (SpecProjector, Spec, SpecFaults) *)

\* C31: applying an invalid score consensus to a patient that has a read model
\* leaves its patientId, vitalSigns and scoreComponents as they were; only
\* currentScore, clinicalRisk, lastUpdated and scoreHistory are written.
C31_InvalidConsensusKeepsVitals ==
  [][(/\ lastOp'.op \in {"project", "redeliver", "routine"}
      /\ lastOp'.projected
      /\ ~lastOp'.consensus.validConsensus
      /\ EWSReadModel[lastOp'.consensus.patientId] # Null) =>
       LET p == lastOp'.consensus.patientId
       IN /\ EWSReadModel'[p].patientId = EWSReadModel[p].patientId
          /\ EWSReadModel'[p].vitalSigns = EWSReadModel[p].vitalSigns
          /\ EWSReadModel'[p].scoreComponents = EWSReadModel[p].scoreComponents
          /\ EWSReadModel'[p].currentScore = lastOp'.consensus.consensusScore
          /\ EWSReadModel'[p].clinicalRisk = lastOp'.consensus.clinicalRisk
          /\ EWSReadModel'[p].lastUpdated = lastOp'.consensus.consensusTimestamp
          /\ \A q \in Patients \ {p} : EWSReadModel'[q] = EWSReadModel[q]]_vars

\* an invalid consensus was applied to a read model whose vital signs are those
\* of none of its participants' first event
C31_Witness ==
  /\ lastOp.op = "project"
  /\ lastOp.projected
  /\ ~lastOp.consensus.validConsensus
  /\ LET p == lastOp.consensus.patientId
     IN /\ Len(applications[p]) >= 2
        /\ EWSReadModel[p].vitalSigns # lastOp.consensus.nodeScores[1].vitalSigns
        /\ EWSReadModel[p].scoreComponents # lastOp.consensus.nodeScores[1].scoreComponents
        /\ EWSReadModel[p].currentScore = lastOp.consensus.consensusScore
        /\ Len(EWSReadModel[p].scoreHistory) = Len(applications[p])

\* C32: after a valid score consensus has been applied, the read model holds
\* the vitalSigns and scoreComponents of a participant whose totalScore equals
\* the consensusScore or, when no participant has that score, those of a
\* participant with the earliest timestamp.
C32_AuthoritativeVitals ==
  (/\ lastOp.op = "calculate-ews"
   /\ lastOp.projected
   /\ lastOp.consensus.validConsensus) =>
    LET C == lastOp.consensus
        participants == Range(C.nodeScores)
        withScore == {n \in participants : n.totalScore = C.consensusScore}
        earliest == {n \in participants :
                       \A m \in participants : n.timestamp <= m.timestamp}
        readModel == EWSReadModel[C.patientId]
    IN \E n \in (IF withScore # {} THEN withScore ELSE earliest) :
         /\ readModel.vitalSigns = n.vitalSigns
         /\ readModel.scoreComponents = n.scoreComponents

\* C33: every patient has at most one EWSReadModel document, also when two
\* applications for a patient without a read model both find none and both
\* insert one
C33_OneReadModelPerPatient ==
  \A p \in Patients : EWSReadModelRows[p] <= 1

\* the second of two overlapping inserts was rejected
C33_Witness ==
  /\ lastOp.op = "project.save"
  /\ lastOp.error = "E11000"
  /\ EWSReadModelRows[lastOp.consensus.patientId] = 1

----------------------------------------------------------------------------
(* Further properties of the notification fan-out (SpecNotify) *)

----------------------------------------------------------------------------
(* Properties of the event bus subscription (SpecBus) *)

----------------------------------------------------------------------------
(* Further properties of the Data Collector ingestion (SpecCollector) *)

\* C36: when the save of the ConsensusData document fails while a reading is
\* ingested, no alert is sent and no EWS calculation is requested, no
\* consensus is stored, the reading is stored and the request answers 201;
\* every reading ingested without a failure has its consensus computed from
\* the stored readings of its window, those of earlier failed attempts
\* included.
C36_ConsensusSaveFailureIsContained ==
  [][lastOp'.op = "sensor" =>
       LET result == lastOp'.results[1]
           reading == result.reading
           window == RecentReadings(router, SensorData', reading)
       IN /\ result.fail = "consensusData.save" =>
               /\ result.alert = Null
               /\ result.ewsRequest = Null
               /\ ~result.persisted
               /\ ConsensusData' = ConsensusData
               /\ SensorData' = Append(SensorData, reading)
               /\ lastOp'.status = 201
          /\ result.fail = "none" =>
               /\ SensorData' = Append(SensorData, reading)
               /\ (result.consensus # Null) <=>
                    (Cardinality({r.nodeId : r \in window}) >= Quorum(router))
               /\ result.consensus # Null =>
                    /\ {r.nodeId : r \in window} =
                         {result.consensus.readings[i].nodeId :
                            i \in 1..Len(result.consensus.readings)}
                    /\ \A i \in 1..Len(result.consensus.readings) :
                         \E r \in window :
                           /\ r.nodeId = result.consensus.readings[i].nodeId
                           /\ r.timestamp = result.consensus.readings[i].timestamp]_vars

\* the save failed for the second reading of a patient: both readings are
\* stored, no consensus is
C36_Witness ==
  /\ lastOp.op = "sensor"
  /\ lastOp.results[1].fail = "consensusData.save"
  /\ lastOp.results[1].consensus # Null
  /\ lastOp.status = 201
  /\ Len(SensorData) = 2
  /\ ConsensusData = <<>>

----------------------------------------------------------------------------
(* Further properties of the scoring pipeline (SpecMethods, SpecFaults) *)

\* C37: every stored EWSConsensus has the clinicalRisk of the band of its own
\* consensusScore: Low for 0, Low-Medium for 1 to 4, Medium for 5 and 6, High
\* from 7, whatever its consensusMethod is.
C37_ConsensusRiskIsBandOfScore ==
  \A i \in 1..Len(EWSConsensus) :
    LET consensus == EWSConsensus[i]
    IN /\ consensus.consensusMethod \in {"majority", "average", "latest", "none"}
       /\ consensus.clinicalRisk =
            CASE consensus.consensusScore = 0 -> "Low"
              [] consensus.consensusScore \in 1..4 -> "Low-Medium"
              [] consensus.consensusScore \in 5..6 -> "Medium"
              [] OTHER -> "High"

\* a consensus taken from the latest node and one without agreement, in two
\* different bands
C37_Witness ==
  /\ Len(EWSConsensus) = 2
  /\ {EWSConsensus[1].consensusMethod, EWSConsensus[2].consensusMethod} = {"latest", "none"}
  /\ EWSConsensus[1].clinicalRisk # EWSConsensus[2].clinicalRisk

\* C38: the calls of a served command are made in the order event save,
\* publish of ews.calculated, consensus save, read-model save, alert, publish
\* of ews.consensus, each only after the calls before it that the command
\* needs were made; ews.consensus is published only for a consensus that is
\* stored and projected into the read model; and when the publish of
\* ews.calculated fails the consensus is attempted as it is otherwise.
C38_StepOrder ==
  (lastOp.op = "calculate-ews" /\ lastOp.status = 201) =>
    LET trace == lastOp.trace
        rank(step) ==
          CASE step = "event.save" -> 1
            [] step \in {"publish.calculated", "publish.calculated:false"} -> 2
            [] step \in {"consensus.save", "consensus.save:error",
                         "consensus.save:ValidationError", "event.find:error"} -> 3
            [] step \in {"readModel.save", "readModel.save:error"} -> 4
            [] step \in {"sendAlert", "sendAlert:error"} -> 5
            [] step \in {"publish.consensus", "publish.consensus:false"} -> 6
            [] OTHER -> 0
        made(step) == \E i \in 1..Len(trace) : trace[i] = step
        published == made("publish.consensus") \/ made("publish.consensus:false")
        patientId == lastOp.command.patientId
        nodesInWindow ==
          {EWSScoreEvent[i].nodeId : i \in
             {k \in 1..Len(EWSScoreEvent) :
                /\ EWSScoreEvent[k].patientId = patientId
                /\ EWSScoreEvent[k].timestamp >= lastOp.command.timestamp - 30000
                /\ EWSScoreEvent[k].timestamp <= lastOp.command.timestamp + 5000}}
    IN /\ Len(trace) >= 2
       /\ \A i \in 1..Len(trace) : rank(trace[i]) # 0
       /\ \A i, j \in 1..Len(trace) : i < j => rank(trace[i]) < rank(trace[j])
       /\ trace[1] = "event.save"
       /\ rank(trace[2]) = 2
       /\ \A i \in 1..Len(trace) :
            /\ rank(trace[i]) = 4 => made("consensus.save")
            /\ rank(trace[i]) = 5 => made("readModel.save")
            /\ rank(trace[i]) = 6 => made("readModel.save")
       /\ published =>
            /\ lastOp.projected
            /\ \E i \in 1..Len(EWSConsensus) : EWSConsensus[i] = lastOp.consensus
            /\ EWSReadModel[patientId] # Null
            /\ EWSReadModel[patientId].currentScore = lastOp.consensus.consensusScore
            /\ EWSReadModel[patientId].lastUpdated = lastOp.consensus.consensusTimestamp
            /\ (lastOp.consensus.consensusScore >= 5 \/ ~lastOp.consensus.validConsensus)
                 <=> made("sendAlert")
       /\ lastOp.fail = "publish.calculated" =>
            /\ Cardinality(nodesInWindow) >= 2 <=> made("consensus.save")
            /\ Cardinality(nodesInWindow) >= 2 => published

\* the publish of ews.calculated failed and the consensus was stored,
\* projected, alerted and published all the same
C38_Witness ==
  /\ lastOp.op = "calculate-ews"
  /\ lastOp.fail = "publish.calculated"
  /\ lastOp.trace = <<"event.save", "publish.calculated:false", "consensus.save",
                      "readModel.save", "sendAlert", "publish.consensus">>

----------------------------------------------------------------------------
(* Further properties of the alert processor and of sendNotification
   (SpecNotify) *)

C40_NoRecordStaysPending ==
  \A i \in 1..Len(Notification) : Notification[i].status \in {"SENT", "FAILED"}

====
